---- MODULE Spec2Model ----
(***************************************************************************)
(* Model of the Delta-E sanity-check analysis of Argyll_Printer_Profiler   *)
(* (src/Argyll_Printer_Profiler.py, function sanity_check, lines           *)
(* 1669-1840).                                                             *)
(*                                                                         *)
(* Text is modelled as it is on disk: a file is a sequence of lines, a     *)
(* line a sequence of one-character strings (the labels of the lines the   *)
(* program itself writes are kept as one token each).  A Python float is   *)
(* modelled as a fixed-point integer, the value times Scale; within the    *)
(* digit bounds of the model this is exact, and str()/float() are the      *)
(* conversions Repr/float below.  The sentinel string "N/A" of             *)
(* get_percentile is the value NA.                                         *)
(***************************************************************************)
EXTENDS Integers, Sequences, FiniteSets, TLC

\* ------------------------------------------------------------------ bounds
MaxLines == 3
MaxSample == 11
MaxRuns == 2
\* patches in a large report
LargeCount == 1001

\* calls of update_setup_value_shell_style followed in a row
MaxUpdates == 2

\* a float x is held as the integer x * Scale (two fractional digits)
Scale == 100

\* ------------------------------------------------------- program constants
NA == 0 - 1
THRESHOLD_1 == 1 * Scale
THRESHOLD_2 == 2 * Scale
THRESHOLD_3 == 3 * Scale
Percentiles == {90, 95, 98, 99}

\* ----------------------------------------------------------------- helpers
Digit == {"0", "1", "2", "3", "4", "5", "6", "7", "8", "9"}
Whitespace == {" ", "\t", "\n", "\r"}

DigitVal(c) ==
  CASE c = "0" -> 0 [] c = "1" -> 1 [] c = "2" -> 2 [] c = "3" -> 3
    [] c = "4" -> 4 [] c = "5" -> 5 [] c = "6" -> 6 [] c = "7" -> 7
    [] c = "8" -> 8 [] c = "9" -> 9

DigitChar(d) ==
  CASE d = 0 -> "0" [] d = 1 -> "1" [] d = 2 -> "2" [] d = 3 -> "3"
    [] d = 4 -> "4" [] d = 5 -> "5" [] d = 6 -> "6" [] d = 7 -> "7"
    [] d = 8 -> "8" [] d = 9 -> "9"

SeqsUpTo(S, n) == UNION {[1..k -> S] : k \in 0..n}

\* line.strip(): drop leading and trailing whitespace
RECURSIVE lstrip(_)
lstrip(s) ==
  IF s # <<>> /\ Head(s) \in Whitespace THEN lstrip(Tail(s)) ELSE s

RECURSIVE rstrip(_)
rstrip(s) ==
  IF s # <<>> /\ s[Len(s)] \in Whitespace
    THEN rstrip(SubSeq(s, 1, Len(s) - 1)) ELSE s

strip(s) == rstrip(lstrip(s))

\* index of the last character of the greedy run [0-9]* that starts at i
\* (i - 1 when s[i] is not a digit)
RECURSIVE DigitRunEnd(_, _)
DigitRunEnd(s, i) ==
  IF i <= Len(s) /\ s[i] \in Digit THEN DigitRunEnd(s, i + 1) ELSE i - 1

\* the pattern without its trailing .*@
re_search_no_at(s) ==
  IF Len(s) < 2 \/ s[1] # "["
    THEN <<>>
    ELSE LET i == DigitRunEnd(s, 2)
             j == DigitRunEnd(s, i + 2)
         IN  IF /\ i >= 2
                /\ i + 1 <= Len(s) /\ s[i + 1] = "."
                /\ j >= i + 2
                /\ j + 1 <= Len(s) /\ s[j + 1] = "]"
               THEN SubSeq(s, 2, j)
               ELSE <<>>

\* re.search(r'^\[([0-9]+\.[0-9]+)\].*@', s): group(1), or <<>> for None
re_search(s) ==
  IF Len(s) < 2 \/ s[1] # "["
    THEN <<>>
    ELSE LET i == DigitRunEnd(s, 2)
             j == DigitRunEnd(s, i + 2)
         IN  IF /\ i >= 2
                /\ i + 1 <= Len(s) /\ s[i + 1] = "."
                /\ j >= i + 2
                /\ j + 1 <= Len(s) /\ s[j + 1] = "]"
                /\ \E k \in (j + 2)..Len(s) : s[k] = "@"
               THEN SubSeq(s, 2, j)
               ELSE <<>>

\* value of a digit string
RECURSIVE IntVal(_)
IntVal(ds) ==
  IF ds = <<>> THEN 0
  ELSE 10 * IntVal(SubSeq(ds, 1, Len(ds) - 1)) + DigitVal(ds[Len(ds)])

\* float("<digits>.<digits>"), as value * Scale (the modelled reports carry
\* one or two fractional digits)
float(g) ==
  LET dot == CHOOSE k \in 1..Len(g) : g[k] = "."
      ip  == SubSeq(g, 1, dot - 1)
      fp  == SubSeq(g, dot + 1, Len(g))
  IN  IntVal(ip) * Scale + IntVal(fp) * (IF Len(fp) = 1 THEN 10 ELSE 1)

\* decimal digits of a natural number
RECURSIVE IntStr(_)
IntStr(n) ==
  IF n < 10 THEN <<DigitChar(n)>>
  ELSE IntStr(n \div 10) \o <<DigitChar(n % 10)>>

\* str(x) of a float x (shortest repr: trailing zeros dropped, one kept)
Repr(v) ==
  LET ip == v \div Scale
      f  == v % Scale
  IN  IntStr(ip) \o <<".">> \o
        (IF f % 10 = 0 THEN <<DigitChar(f \div 10)>>
         ELSE <<DigitChar(f \div 10), DigitChar(f % 10)>>)

\* a percentile that is not available shown as 0.0
Str_zero(p) == IF p = NA THEN <<"0", ".", "0">> ELSE Repr(p)

\* f"{x}" of a percentile: a float or the string "N/A"
Str(p) == IF p = NA THEN <<"N/A">> ELSE Repr(p)

\* f"{x:.1f}" of the float x = (count / total) * 100, held as the exact
\* quotient <<count * 100, total>>; rounds to the nearest tenth, ties to even
Format1f(q) ==
  LET t  == q[1] * 10
      lo == t \div q[2]
      r  == t % q[2]
      tenths == IF 2 * r > q[2] \/ (2 * r = q[2] /\ lo % 2 = 1)
                  THEN lo + 1 ELSE lo
  IN  IntStr(tenths \div 10) \o <<".", DigitChar(tenths % 10)>>

\* ------------------------------------------------- the analysis, by stage
\* a parser that drops a value equal to the one before it
RECURSIVE ParseValues_dedup(_)
ParseValues_dedup(lines) ==
  IF lines = <<>> THEN <<>>
  ELSE LET m == re_search(strip(Head(lines)))
           rest == ParseValues_dedup(Tail(lines))
       IN  IF m = <<>> THEN rest
           ELSE IF rest # <<>> /\ Head(rest) = float(m) THEN rest
           ELSE <<float(m)>> \o rest

\* lines 1700-1705: one value per matching line, in file order (the loop
\* over the lines, unfolded by halves to keep the evaluation shallow)
RECURSIVE ParseValues(_)
ParseValues(lines) ==
  IF lines = <<>> THEN <<>>
  ELSE IF Len(lines) = 1
    THEN LET m == re_search(strip(lines[1]))
         IN  IF m # <<>> THEN <<float(m)>> ELSE <<>>
  ELSE LET h == Len(lines) \div 2
       IN  ParseValues(SubSeq(lines, 1, h))
             \o ParseValues(SubSeq(lines, h + 1, Len(lines)))

\* an emptiness test that never fires
NoValues_never(vals) == Len(vals) < 0

\* line 1707: "if not delta_e_values"
NoValues(vals) == vals = <<>>

\* the largest value wherever it stands
First_max(vals) ==
  vals[CHOOSE i \in 1..Len(vals) : \A j \in 1..Len(vals) : vals[i] >= vals[j]]

\* line 1712 (Python's [0])
First(vals) == vals[1]

\* the smallest value read at the front of the list as well
Last_front(vals) == vals[1]

\* line 1713 (Python's [-1])
Last(vals) == vals[Len(vals)]

\* a position rounded down instead of up
Position_floor(n, p) == (n * p) \div 100

\* lines 1720-1723: math.ceil(total_patches * p / 100)
Position(n, p) == (n * p + 99) \div 100

\* an index counted from the front of the list
percentile_index_front(vals, pos) == pos - 1

\* line 1728: the 0-based index read by get_percentile
percentile_index(vals, pos) == Len(vals) - pos

\* a percentile read at rank pos from the front of the list
get_percentile_front(vals, pos) ==
  IF pos > 0 /\ pos <= Len(vals) THEN vals[pos] ELSE NA

\* a percentile without the upper guard: Python's negative index wraps
get_percentile_wrap(vals, pos) ==
  IF pos > 0
    THEN vals[((percentile_index(vals, pos) + Len(vals)) % Len(vals)) + 1]
    ELSE NA

\* lines 1726-1729
get_percentile(vals, pos) ==
  IF pos > 0 /\ pos <= Len(vals)
    THEN vals[percentile_index(vals, pos) + 1] ELSE NA

\* a count that takes in the values equal to the threshold
CountBelow_le(vals, t) == Cardinality({i \in 1..Len(vals) : vals[i] <= t})

\* lines 1737-1739: sum(1 for v in delta_e_values if v < t)
CountBelow(vals, t) == Cardinality({i \in 1..Len(vals) : vals[i] < t})

\* the fraction not turned into a percentage
Percent_fraction(count, total) == <<count, total>>

\* lines 1741-1743: (count / total_patches) * 100
Percent(count, total) == <<count * 100, total>>

\* the text file of one report line, and of an f.write("\n")
Blank == <<>>

\* lines 1746-1761: the lines logged as the result display
DisplayLines(lg, sm, p99, p98, p95, p90, pc1, pc2, pc3) ==
  << Blank,
     <<"Delta E Range Analysis:">>,
     <<"  Largest dE:  ">> \o Repr(lg),
     <<"  Smallest dE: ">> \o Repr(sm),
     Blank,
     <<"Percentile Values:">>,
     <<"  99th percentile: ">> \o Str(p99),
     <<"  98th percentile: ">> \o Str(p98),
     <<"  95th percentile: ">> \o Str(p95),
     <<"  90th percentile: ">> \o Str(p90),
     Blank,
     <<"Patch Count Analysis:">>,
     <<"  Percent of patches with dE<1.0: ">> \o Format1f(pc1) \o <<"%">>,
     <<"  Percent of patches with dE<2.0: ">> \o Format1f(pc2) \o <<"%">>,
     <<"  Percent of patches with dE<3.0: ">> \o Format1f(pc3) \o <<"%">>,
     Blank >>

\* lines 1765-1781: the lines appended to the report file
BlockHeader == <<"=== Delta E Range Analysis ===">>
BlockFooter == <<"================================">>

\* a block that writes the two range values under each other's label
BlockLines_swapped(lg, sm, p99, p98, p95, p90, pc1, pc2, pc3) ==
  << Blank,
     BlockHeader,
     <<"Largest dE: ">> \o Repr(sm),
     <<"Smallest dE: ">> \o Repr(lg),
     Blank,
     <<"Percentile Values:">>,
     <<"99th percentile: ">> \o Str(p99),
     <<"98th percentile: ">> \o Str(p98),
     <<"95th percentile: ">> \o Str(p95),
     <<"90th percentile: ">> \o Str(p90),
     Blank,
     <<"Patch Count Analysis:">>,
     <<"Percent of patches with dE<1.0: ">> \o Format1f(pc1) \o <<"%">>,
     <<"Percent of patches with dE<2.0: ">> \o Format1f(pc2) \o <<"%">>,
     <<"Percent of patches with dE<3.0: ">> \o Format1f(pc3) \o <<"%">>,
     BlockFooter,
     Blank >>

BlockLines(lg, sm, p99, p98, p95, p90, pc1, pc2, pc3) ==
  << Blank,
     BlockHeader,
     <<"Largest dE: ">> \o Repr(lg),
     <<"Smallest dE: ">> \o Repr(sm),
     Blank,
     <<"Percentile Values:">>,
     <<"99th percentile: ">> \o Str(p99),
     <<"98th percentile: ">> \o Str(p98),
     <<"95th percentile: ">> \o Str(p95),
     <<"90th percentile: ">> \o Str(p90),
     Blank,
     <<"Patch Count Analysis:">>,
     <<"Percent of patches with dE<1.0: ">> \o Format1f(pc1) \o <<"%">>,
     <<"Percent of patches with dE<2.0: ">> \o Format1f(pc2) \o <<"%">>,
     <<"Percent of patches with dE<3.0: ">> \o Format1f(pc3) \o <<"%">>,
     BlockFooter,
     Blank >>

\* ------------------------------------------------------------ the reports
\* what profcheck may print: per-patch lines, and lines that are not
LinePatchA == <<"[", "5", ".", "2", "0", "]", " ", "A", "1", " ", "@", " ", "x">>
LinePatchB == <<"[", "3", ".", "1", "0", "]", " ", "@">>
LinePatchC == <<"[", "3", ".", "0", "0", "]", "@">>
LinePatchD == <<"[", "2", ".", "0", "0", "]", " ", "@", " ">>
LinePatchE == <<"[", "1", ".", "0", "0", "]", " ", "@">>
LinePatchF == <<" ", "[", "0", ".", "5", "0", "]", " ", "p", " ", "@", " ", "q">>
LineInteger == <<"[", "5", "]", " ", "@">>
LineNoAt == <<"[", "1", ".", "5", "]", " ", "x">>
LineNotFirst == <<"x", "[", "1", ".", "5", "]", "@">>

ReportLines == {LinePatchA, LinePatchB, LinePatchC, LinePatchD, LinePatchE,
                LinePatchF, LineInteger, LineNoAt, LineNotFirst}
ReportTexts == SeqsUpTo(ReportLines, MaxLines)
LongTexts == SeqsUpTo({LinePatchA, LinePatchF}, MaxSample)

\* output of the second, unsorted profcheck run
LineSummary == <<"Profile check complete, errors(CIEDE2000): max. = 5.2">>
Profcheck2Texts == {<<>>, <<LineSummary>>}

\* ---------------------------------------------------------- the setup file
\* the setup file is text; a line ends at "\n" (of the other line breaks
\* str.splitlines knows, none occurs in the texts modelled)
Upper == {"A", "B", "C", "D", "E", "F", "G", "H", "I", "J", "K", "L", "M",
          "N", "O", "P", "Q", "R", "S", "T", "U", "V", "W", "X", "Y", "Z"}
Lower == {"a", "b", "c", "d", "e", "f", "g", "h", "i", "j", "k", "l", "m",
          "n", "o", "p", "q", "r", "s", "t", "u", "v", "w", "x", "y", "z"}
\* str.lower() of the letters
lower(s) ==
  LET UpperSeq ==
        <<"A", "B", "C", "D", "E", "F", "G", "H", "I", "J", "K", "L", "M",
          "N", "O", "P", "Q", "R", "S", "T", "U", "V", "W", "X", "Y", "Z">>
      LowerSeq ==
        <<"a", "b", "c", "d", "e", "f", "g", "h", "i", "j", "k", "l", "m",
          "n", "o", "p", "q", "r", "s", "t", "u", "v", "w", "x", "y", "z">>
  IN  [i \in 1..Len(s) |->
         IF s[i] \in Upper
           THEN LowerSeq[CHOOSE k \in 1..26 : UpperSeq[k] = s[i]]
           ELSE s[i]]

\* Path(p).suffix: from the last "." of the final component, if that "."
\* neither begins nor ends the component
suffix(p) ==
  LET slashes == {i \in 1..Len(p) : p[i] = "/"}
      start == IF slashes = {} THEN 1
               ELSE (CHOOSE i \in slashes : \A j \in slashes : j <= i) + 1
      dots == {i \in (start + 1)..(Len(p) - 1) : p[i] = "."}
  IN  IF dots = {} THEN <<>>
      ELSE SubSeq(p, CHOOSE i \in dots : \A j \in dots : j <= i, Len(p))

IdentStart == Upper \cup Lower \cup {"_"}
IdentChar == IdentStart \cup Digit

\* text.splitlines(): a line runs to the next "\n"; the last line needs
\* no "\n"
RECURSIVE SplitFrom(_, _)
SplitFrom(text, i) ==
  IF i > Len(text) THEN <<>>
  ELSE LET after == {j \in i..Len(text) : text[j] = "\n"}
       IN  IF after = {} THEN <<SubSeq(text, i, Len(text))>>
           ELSE LET b == CHOOSE j \in after : \A l \in after : j <= l
                IN  <<SubSeq(text, i, b - 1)>> \o SplitFrom(text, b + 1)

splitlines(text) == SplitFrom(text, 1)

\* "\n".join(out) + "\n" (line 244)
RECURSIVE JoinLines(_)
JoinLines(out) ==
  IF out = <<>> THEN <<"\n">>
  ELSE IF Len(out) = 1 THEN out[1] \o <<"\n">>
  ELSE out[1] \o <<"\n">> \o JoinLines(Tail(out))

startswith(s, prefix) ==
  Len(s) >= Len(prefix) /\ SubSeq(s, 1, Len(prefix)) = prefix

\* index of the last character of the run [A-Za-z0-9_]* that starts at i
RECURSIVE IdentRunEnd(_, _)
IdentRunEnd(s, i) ==
  IF i <= Len(s) /\ s[i] \in IdentChar THEN IdentRunEnd(s, i + 1) ELSE i - 1

\* _SETUP_ASSIGN_RE.match(line) (line 184): <<key, val>>, or <<>> for None
SETUP_ASSIGN_RE(line) ==
  IF line = <<>> \/ line[1] \notin IdentStart THEN <<>>
  ELSE LET e == IdentRunEnd(line, 2)
       IN  IF e + 1 <= Len(line) /\ line[e + 1] = "="
             THEN <<SubSeq(line, 1, e), SubSeq(line, e + 2, Len(line))>>
             ELSE <<>>

\* lines 212-214: val.split(" #", 1)[0].rstrip() when " #" is in val
StripInlineComment(val) ==
  LET at == {i \in 1..(Len(val) - 1) : val[i] = " " /\ val[i + 1] = "#"}
  IN  IF at = {} THEN val
      ELSE LET first == CHOOSE i \in at : \A j \in at : i <= j
           IN  rstrip(SubSeq(val, 1, first - 1))

\* lines 216-218: outer quotes of one kind are dropped
StripQuotes(val) ==
  IF val # <<>> /\ val[1] = val[Len(val)] /\ val[1] \in {"'", "\""}
    THEN SubSeq(val, 2, Len(val) - 1) ELSE val

\* cfg[key] = val
Assign(cfg, key, val) ==
  [k \in DOMAIN cfg \cup {key} |-> IF k = key THEN val ELSE cfg[k]]


\* lines 200-221: the loop over the lines, later assignments winning
RECURSIVE LoadLines(_, _)
LoadLines(lines, cfg) ==
  IF lines = <<>> THEN cfg
  ELSE LET line == strip(Head(lines))
           m == IF line = <<>> \/ line[1] = "#" THEN <<>>
                ELSE SETUP_ASSIGN_RE(line)
       IN  LoadLines(Tail(lines),
                     IF m = <<>> THEN cfg
                     ELSE Assign(cfg, m[1],
                                 StripQuotes(StripInlineComment(strip(m[2])))))

\* lines 187-223
load_setup_file_shell_style(text) ==
  LoadLines(splitlines(text), [k \in {} |-> <<>>])

\* cfg.get(key, "")
Get(cfg, key) == IF key \in DOMAIN cfg THEN cfg[key] ELSE <<>>

\* f"{key}='{value}'" (lines 236, 242)
AssignmentLine(key, value) == key \o <<"=", "'">> \o value \o <<"'">>

\* the line kept or replaced (lines 234-239)
UpdatedLine(line, key, value) ==
  IF startswith(strip(line), Append(key, "="))
    THEN AssignmentLine(key, value) ELSE line

\* an update that puts its assignment first and drops the rest of the file
update_setup_value_shell_style_rewrite(text, key, value) ==
  JoinLines(<<AssignmentLine(key, value)>>)

\* lines 226-244: every assignment to key is replaced, or one is appended
update_setup_value_shell_style(text, key, value) ==
  LET lines == splitlines(text)
      found == \E i \in 1..Len(lines) :
                 startswith(strip(lines[i]), Append(key, "="))
      out   == [i \in 1..Len(lines) |-> UpdatedLine(lines[i], key, value)]
  IN  JoinLines(IF found THEN out
                ELSE Append(out, AssignmentLine(key, value)))

\* the keys edit_setup_parameters writes (lines 2167-2222)
PRINTER_ICC_PATH ==
  <<"P", "R", "I", "N", "T", "E", "R", "_", "I", "C", "C", "_", "P", "A",
  "T", "H">>

PRECONDITIONING_PROFILE_PATH ==
  <<"P", "R", "E", "C", "O", "N", "D", "I", "T", "I", "O", "N", "I", "N",
  "G", "_", "P", "R", "O", "F", "I", "L", "E", "_", "P", "A", "T", "H">>

STRIP_PATCH_CONSISTENSY_TOLERANCE ==
  <<"S", "T", "R", "I", "P", "_", "P", "A", "T", "C", "H", "_", "C", "O",
  "N", "S", "I", "S", "T", "E", "N", "S", "Y", "_", "T", "O", "L", "E", "R",
  "A", "N", "C", "E">>

PAPER_SIZE ==
  <<"P", "A", "P", "E", "R", "_", "S", "I", "Z", "E">>

INK_LIMIT ==
  <<"I", "N", "K", "_", "L", "I", "M", "I", "T">>

EXAMPLE_FILE_NAMING ==
  <<"E", "X", "A", "M", "P", "L", "E", "_", "F", "I", "L", "E", "_", "N",
  "A", "M", "I", "N", "G">>

\* ------------------------------------------------------------------ state
VARIABLES
  pc,              \* where control is: "menu", a stage of sanity_check, or
                   \* "crashed" after an exception nobody caught
  runs,            \* calls of sanity_check made so far
  sanity_file,     \* content of <name>_sanity_check.txt, a sequence of lines
  display,         \* lines logged by the current call of sanity_check
  ret,             \* "None" while running, else the value returned
  choice,          \* last key read by the submenu
  delta_e_values, largest, smallest, range_val, total_patches,
  pos_99, pos_98, pos_95, pos_90,
  percentile_99, percentile_98, percentile_95, percentile_90,
  count_lt_1, count_lt_2, count_lt_3,
  percent_lt_1, percent_lt_2, percent_lt_3,
  returncode,      \* proc.returncode of the first profcheck run, Unset before
  report_out,      \* what the first profcheck run of the current call printed
  mpc,             \* where main_menu is within its loop
  state,           \* the AppState fields of lines 96-106
  colprof_rc,      \* exit code of colprof in this menu iteration, Unset before
  sanity_called,   \* sanity_check was called in this menu iteration
  prev,            \* the previous call of sanity_check, when recorded
  setup_file,      \* text of Argyll_Printer_Profiler_setup.ini
  cfg,             \* the dict of setup values in scope
  call,            \* the last call of update_setup_value_shell_style
  entry,           \* the last key read by edit_setup_parameters and the
                   \* text typed, or file picked, after it
  chartread,       \* the chartread step of this menu iteration, when recorded
  selected         \* the last call of select_file, when recorded

rangeVars == <<largest, smallest, range_val, total_patches>>
posVars == <<pos_99, pos_98, pos_95, pos_90>>
pctVars == <<percentile_99, percentile_98, percentile_95, percentile_90>>
cntVars == <<count_lt_1, count_lt_2, count_lt_3,
             percent_lt_1, percent_lt_2, percent_lt_3>>
menuVars == <<mpc, state, colprof_rc, sanity_called>>
setupVars == <<setup_file, cfg, call, entry>>
ioVars == <<chartread, selected>>
vars == <<pc, runs, sanity_file, display, ret, choice, delta_e_values,
          rangeVars, posVars, pctVars, cntVars, returncode, report_out,
          menuVars, prev, setupVars, ioVars>>

\* setup files as they may be found: a comment and one assignment
SetupPlain ==
  <<"#", " ", "s", "e", "t", "u", "p", "\n", "P", "A", "P", "E", "R", "_",
  "S", "I", "Z", "E", "=", "'", "A", "4", "'", "\n">>

\* an indented assignment with an inline comment, double quotes, a blank
\* line, a second assignment to the same key and no final line break
SetupMixed ==
  <<" ", " ", "P", "A", "P", "E", "R", "_", "S", "I", "Z", "E", "=", "A",
  "4", " ", "#", " ", "s", "i", "z", "e", "\n", "I", "N", "K", "_", "L",
  "I", "M", "I", "T", "=", "\"", "3", "0", "0", "\"", "\n", "\n", "P", "A",
  "P", "E", "R", "_", "S", "I", "Z", "E", "=", "'", "L", "e", "t", "t", "e",
  "r", "'">>

\* lines that are no assignment to INK_LIMIT or PAPER_SIZE
SetupNearMiss ==
  <<"e", "x", "p", "o", "r", "t", " ", "I", "N", "K", "_", "L", "I", "M",
  "I", "T", "=", "1", "\n", "I", "N", "K", "_", "L", "I", "M", "I", "T",
  "_", "M", "A", "X", "=", "'", "9", "'", "\n", "#", "I", "N", "K", "_",
  "L", "I", "M", "I", "T", "=", "'", "5", "'", "\n", "P", "A", "P", "E",
  "R", " ", "S", "I", "Z", "E", "=", "A", "4", "\n">>

\* the setup file the menu specifications start from
SetupShipped ==
  <<"P", "A", "P", "E", "R", "_", "S", "I", "Z", "E", "=", "'", "A", "4",
  "'", "\n", "I", "N", "K", "_", "L", "I", "M", "I", "T", "=", "'", "'",
  "\n", "S", "T", "R", "I", "P", "_", "P", "A", "T", "C", "H", "_", "C",
  "O", "N", "S", "I", "S", "T", "E", "N", "S", "Y", "_", "T", "O", "L", "E",
  "R", "A", "N", "C", "E", "=", "'", "0", ".", "6", "'", "\n">>

\* no call of update_setup_value_shell_style made yet
NoCall ==
  [n |-> 0, key |-> <<>>, value |-> <<>>, before |-> <<>>, loaded |-> TRUE]

\* no choice made in edit_setup_parameters yet
NoEntry ==
  [answer |-> "", typed |-> <<>>]

\* main() has loaded the setup file (line 2557)
SetupLoaded(text) ==
  /\ setup_file = text
  /\ cfg = load_setup_file_shell_style(text)
  /\ call = NoCall
  /\ entry = NoEntry

\* an exit code not yet set
Unset == 0 - 1

\* locals of sanity_check before they are assigned
LocalsUnset ==
  /\ delta_e_values = <<>>
  /\ largest = 0 /\ smallest = 0 /\ range_val = 0 /\ total_patches = 0
  /\ pos_99 = 0 /\ pos_98 = 0 /\ pos_95 = 0 /\ pos_90 = 0
  /\ percentile_99 = 0 /\ percentile_98 = 0
  /\ percentile_95 = 0 /\ percentile_90 = 0
  /\ count_lt_1 = 0 /\ count_lt_2 = 0 /\ count_lt_3 = 0
  /\ percent_lt_1 = <<0, 1>> /\ percent_lt_2 = <<0, 1>>
  /\ percent_lt_3 = <<0, 1>>

\* AppState as constructed (lines 96-106): every workflow field empty
AppState ==
  [source_folder |-> "", dialog_title |-> "", name |-> "", desc |-> "",
   action |-> "", profile_folder |-> "", new_name |-> "",
   ti3_mtime_before |-> "", ti3_mtime_after |-> "",
   tif_files |-> <<>>, new_icc_path |-> <<>>]

\* the dialog titles main_menu sets for actions 2 to 5
DialogTitle(answer) ==
  CASE answer = "2" ->
         "Select an existing .ti3 file to re-read/resume measuring target patches."
    [] answer = "3" ->
         "Select an existing .ti2 file to measure target patches."
    [] answer = "4" ->
         "Select an existing completed .ti3 file to create .icc profile with."
    [] answer = "5" ->
         "Select an existing .ti3 file that has a matching .icc profile."

\* AppState after select_file accepted P.ti3 for action 5 (lines 537-606)
StateInAction5 ==
  [AppState EXCEPT !.action = "5", !.dialog_title = DialogTitle("5"),
                   !.name = "P", !.desc = "P",
                   !.source_folder = "src", !.profile_folder = "src"]

\* no earlier call is on record
NoPrev(on) ==
  [on |-> on, valid |-> FALSE, out |-> <<>>, sample |-> <<>>,
   summary |-> <<>>, ret |-> "None", display |-> <<>>, action |-> "",
   returncode |-> Unset, run |-> 0]

Banner == << Blank, <<"Performing sanity check (creating .txt file)...">>,
             Blank, <<"Command Used: profcheck -v2 -k -s">> >>

\* chartread has not been reached in this menu iteration
NoChartread(on) ==
  [on |-> on, again |-> "", ti3_mtime_before |-> Unset, returncode |-> Unset,
   ti3_exists |-> FALSE, ti3_mtime_after |-> Unset, cont |-> ""]

\* select_file has not been called in this menu iteration
NoSelected(on) ==
  [on |-> on, action |-> "", path |-> <<>>, ti2 |-> FALSE, icc |-> FALSE,
   tifs |-> <<>>, dialog |-> FALSE, ret |-> "None"]

\* neither is recorded
Unrecorded ==
  /\ chartread = NoChartread(FALSE)
  /\ selected = NoSelected(FALSE)

\* main_menu inside sanity_check for action 5, the first profcheck run
\* having exited 0
InSanityCheck(on) ==
  /\ runs = MaxRuns - 1
  /\ display = Banner
  /\ ret = "None"
  /\ choice = ""
  /\ returncode = 0
  /\ mpc = "in_sanity"
  /\ state = StateInAction5
  /\ colprof_rc = Unset
  /\ sanity_called = TRUE
  /\ prev = NoPrev(on)
  /\ SetupLoaded(SetupShipped)
  /\ Unrecorded

\* main_menu is entered (line 2316); on says whether calls are recorded
Start(on) ==
  /\ pc = "menu"
  /\ runs = 0
  /\ sanity_file = <<>>
  /\ display = <<>>
  /\ ret = "None"
  /\ choice = ""
  /\ LocalsUnset
  /\ returncode = Unset
  /\ report_out = <<>>
  /\ mpc = "top"
  /\ state = AppState
  /\ colprof_rc = Unset
  /\ sanity_called = FALSE
  /\ prev = NoPrev(on)

Init == Start(FALSE) /\ SetupLoaded(SetupShipped) /\ Unrecorded

\* the state after the first profcheck run of a call wrote a long report
InitLong ==
  /\ pc = "parse"
  /\ report_out \in LongTexts
  /\ sanity_file = report_out
  /\ InSanityCheck(FALSE)
  /\ LocalsUnset

\* ---------------------------------------------------------------- actions
LocalsReset ==
  /\ delta_e_values' = <<>>
  /\ largest' = 0 /\ smallest' = 0 /\ range_val' = 0 /\ total_patches' = 0
  /\ pos_99' = 0 /\ pos_98' = 0 /\ pos_95' = 0 /\ pos_90' = 0
  /\ percentile_99' = 0 /\ percentile_98' = 0
  /\ percentile_95' = 0 /\ percentile_90' = 0
  /\ count_lt_1' = 0 /\ count_lt_2' = 0 /\ count_lt_3' = 0
  /\ percent_lt_1' = <<0, 1>> /\ percent_lt_2' = <<0, 1>>
  /\ percent_lt_3' = <<0, 1>>

ProfcheckFailed == << Blank, <<"profcheck failed. See log for details.">>, Blank >>

NoValuesFound == <<"No delta E values found in sanity check file">>

\* what the current call has come to
Snapshot ==
  [on |-> TRUE, valid |-> runs > 0, out |-> report_out,
   sample |-> delta_e_values,
   summary |-> <<rangeVars, pctVars, cntVars>>,
   ret |-> ret, display |-> display, action |-> state.action,
   returncode |-> returncode, run |-> runs]

\* an exception nobody catches unwinds sanity_check, main_menu and main
\* (lines 2316-2600 have no try around the call): the process ends
Raise ==
  /\ pc' = "crashed"
  /\ mpc' = "exited"

\* sanity_check is entered (lines 1669-1679) from main_menu (line 2479),
\* perform_measurement_and_profile_creation (line 1992) or
\* create_profile_from_existing (line 2033)
CallSanityCheck ==
  /\ pc = "menu"
  /\ mpc = "call_sanity"
  /\ runs < MaxRuns
  /\ runs' = runs + 1
  /\ pc' = "open"
  /\ mpc' = "in_sanity"
  /\ sanity_called' = TRUE
  /\ ret' = "None"
  /\ choice' = ""
  /\ display' = Banner
  /\ LocalsReset
  /\ returncode' = Unset
  /\ report_out' = <<>>
  /\ UNCHANGED <<sanity_file, state, colprof_rc, prev>>
  /\ UNCHANGED <<setupVars, ioVars>>

\* the report file opened for appending
OpenReport_append ==
  /\ pc = "open"
  /\ \/ /\ pc' = "profcheck1"
        /\ UNCHANGED <<sanity_file, mpc>>
     \/ /\ Raise
        /\ UNCHANGED sanity_file
  /\ UNCHANGED <<runs, display, ret, choice, delta_e_values,
                 rangeVars, posVars, pctVars, cntVars, returncode, report_out,
                 state, colprof_rc, sanity_called, prev>>
  /\ UNCHANGED <<setupVars, ioVars>>

\* line 1682: open(sanity_file, "w") creates or truncates the report file,
\* or raises OSError when the file cannot be written
OpenReport ==
  /\ pc = "open"
  /\ \/ /\ sanity_file' = <<>>
        /\ pc' = "profcheck1"
        /\ UNCHANGED mpc
     \/ /\ Raise
        /\ UNCHANGED sanity_file
  /\ UNCHANGED <<runs, display, ret, choice, delta_e_values,
                 rangeVars, posVars, pctVars, cntVars, returncode, report_out,
                 state, colprof_rc, sanity_called, prev>>
  /\ UNCHANGED <<setupVars, ioVars>>

\* the first profcheck run with its exit code not looked at
Profcheck1Run_ignore_rc(texts) ==
  /\ pc = "profcheck1"
  /\ \/ \E out \in texts, rc \in {0, 1} :
          /\ sanity_file' = sanity_file \o out
          /\ report_out' = out
          /\ returncode' = rc
          /\ pc' = "parse"
          /\ UNCHANGED <<display, ret, mpc>>
     \/ /\ Raise
        /\ UNCHANGED <<sanity_file, report_out, returncode, display, ret>>
  /\ UNCHANGED <<runs, choice, delta_e_values,
                 rangeVars, posVars, pctVars, cntVars,
                 state, colprof_rc, sanity_called, prev>>
  /\ UNCHANGED <<setupVars, ioVars>>

\* lines 1683-1693: subprocess.run starts profcheck, which writes one of
\* texts into the file and exits with rc; subprocess.run raises
\* FileNotFoundError when there is no profcheck to start
Profcheck1Run(texts) ==
  /\ pc = "profcheck1"
  /\ \/ \E out \in texts, rc \in {0, 1} :
          /\ sanity_file' = sanity_file \o out
          /\ report_out' = out
          /\ returncode' = rc
          /\ IF rc # 0
               THEN /\ display' = display \o ProfcheckFailed
                    /\ ret' = "False"
                    /\ pc' = "menu"
               ELSE /\ pc' = "parse"
                    /\ UNCHANGED <<display, ret>>
          /\ UNCHANGED mpc
     \/ /\ Raise
        /\ UNCHANGED <<sanity_file, report_out, returncode, display, ret>>
  /\ UNCHANGED <<runs, choice, delta_e_values,
                 rangeVars, posVars, pctVars, cntVars,
                 state, colprof_rc, sanity_called, prev>>
  /\ UNCHANGED <<setupVars, ioVars>>

Profcheck1 == Profcheck1Run(ReportTexts)

\* the empty sample reported with the words of a profcheck failure
Parse_same_message ==
  /\ pc = "parse"
  /\ sanity_file' = sanity_file \o <<Blank, Blank>>
  /\ delta_e_values' = ParseValues(sanity_file')
  /\ IF NoValues(delta_e_values')
       THEN /\ display' = display \o ProfcheckFailed
            /\ ret' = "False"
            /\ pc' = "menu"
       ELSE /\ pc' = "positions"
            /\ UNCHANGED <<display, ret>>
  /\ UNCHANGED <<runs, choice, rangeVars, posVars, pctVars, cntVars,
                 returncode, report_out, menuVars, prev>>
  /\ UNCHANGED <<setupVars, ioVars>>

\* lines 1695-1709: append "\n\n", read the file back and extract the values
Parse ==
  /\ pc = "parse"
  /\ sanity_file' = sanity_file \o <<Blank, Blank>>
  /\ delta_e_values' = ParseValues(sanity_file')
  /\ IF NoValues(delta_e_values')
       THEN /\ display' = Append(display, NoValuesFound)
            /\ ret' = "False"
            /\ pc' = "menu"
       ELSE /\ pc' = "positions"
            /\ UNCHANGED <<display, ret>>
  /\ UNCHANGED <<runs, choice, rangeVars, posVars, pctVars, cntVars,
                 returncode, report_out, menuVars, prev>>
  /\ UNCHANGED <<setupVars, ioVars>>

\* the sample reversed in place while the summary is taken
RangeAndPositions_sorting ==
  /\ pc = "positions"
  /\ delta_e_values' = [i \in 1..Len(delta_e_values) |->
                          delta_e_values[Len(delta_e_values) + 1 - i]]
  /\ largest' = First(delta_e_values)
  /\ smallest' = Last(delta_e_values)
  /\ range_val' = largest' - smallest'
  /\ total_patches' = Len(delta_e_values)
  /\ pos_99' = Position(total_patches', 99)
  /\ pos_98' = Position(total_patches', 98)
  /\ pos_95' = Position(total_patches', 95)
  /\ pos_90' = Position(total_patches', 90)
  /\ pc' = "percentiles"
  /\ UNCHANGED <<runs, sanity_file, display, ret, choice,
                 pctVars, cntVars, returncode, report_out, menuVars, prev>>
  /\ UNCHANGED <<setupVars, ioVars>>

\* lines 1711-1723
RangeAndPositions ==
  /\ pc = "positions"
  /\ largest' = First(delta_e_values)
  /\ smallest' = Last(delta_e_values)
  /\ range_val' = largest' - smallest'
  /\ total_patches' = Len(delta_e_values)
  /\ pos_99' = Position(total_patches', 99)
  /\ pos_98' = Position(total_patches', 98)
  /\ pos_95' = Position(total_patches', 95)
  /\ pos_90' = Position(total_patches', 90)
  /\ pc' = "percentiles"
  /\ UNCHANGED <<runs, sanity_file, display, ret, choice, delta_e_values,
                 pctVars, cntVars, returncode, report_out, menuVars, prev>>
  /\ UNCHANGED <<setupVars, ioVars>>

\* lines 1725-1743
PercentilesAndCounts ==
  /\ pc = "percentiles"
  /\ percentile_99' = get_percentile(delta_e_values, pos_99)
  /\ percentile_98' = get_percentile(delta_e_values, pos_98)
  /\ percentile_95' = get_percentile(delta_e_values, pos_95)
  /\ percentile_90' = get_percentile(delta_e_values, pos_90)
  /\ count_lt_1' = CountBelow(delta_e_values, THRESHOLD_1)
  /\ count_lt_2' = CountBelow(delta_e_values, THRESHOLD_2)
  /\ count_lt_3' = CountBelow(delta_e_values, THRESHOLD_3)
  /\ percent_lt_1' = Percent(count_lt_1', total_patches)
  /\ percent_lt_2' = Percent(count_lt_2', total_patches)
  /\ percent_lt_3' = Percent(count_lt_3', total_patches)
  /\ pc' = "display"
  /\ UNCHANGED <<runs, sanity_file, display, ret, choice, delta_e_values,
                 rangeVars, posVars, returncode, report_out, menuVars, prev>>
  /\ UNCHANGED <<setupVars, ioVars>>

\* lines 1745-1761
Display ==
  /\ pc = "display"
  /\ display' = display \o
       DisplayLines(largest, smallest, percentile_99, percentile_98,
                    percentile_95, percentile_90,
                    percent_lt_1, percent_lt_2, percent_lt_3)
  /\ pc' = "append"
  /\ UNCHANGED <<runs, sanity_file, ret, choice, delta_e_values,
                 rangeVars, posVars, pctVars, cntVars,
                 returncode, report_out, menuVars, prev>>
  /\ UNCHANGED <<setupVars, ioVars>>

\* lines 1763-1781: open(sanity_file, "a")
AppendBlock ==
  /\ pc = "append"
  /\ sanity_file' = sanity_file \o
       BlockLines(largest, smallest, percentile_99, percentile_98,
                  percentile_95, percentile_90,
                  percent_lt_1, percent_lt_2, percent_lt_3)
  /\ pc' = "profcheck2"
  /\ UNCHANGED <<runs, display, ret, choice, delta_e_values,
                 rangeVars, posVars, pctVars, cntVars,
                 returncode, report_out, menuVars, prev>>
  /\ UNCHANGED <<setupVars, ioVars>>

\* lines 1783-1802: the second profcheck run appends to the file; as in
\* the first run, subprocess.run raises when there is no profcheck
Profcheck2 ==
  /\ pc = "profcheck2"
  /\ \/ \E out \in Profcheck2Texts, rc \in {0, 1} :
          /\ sanity_file' = sanity_file \o out
          /\ IF rc # 0
               THEN /\ display' = display \o
                         << <<"Command Used: profcheck -v -k">> >> \o ProfcheckFailed
                    /\ ret' = "False"
                    /\ pc' = "menu"
               ELSE /\ display' = display \o
                         << <<"Command Used: profcheck -v -k">>, Blank,
                            <<"Sanity Check Complete">>,
                            <<"Detailed sanity check stored in:">>,
                            <<"'<name>_sanity_check.txt'.">>, Blank >>
                    /\ pc' = "submenu"
                    /\ UNCHANGED ret
          /\ UNCHANGED mpc
     \/ /\ Raise
        /\ display' = Append(display, <<"Command Used: profcheck -v -k">>)
        /\ UNCHANGED <<sanity_file, ret>>
  /\ UNCHANGED <<runs, choice, delta_e_values,
                 rangeVars, posVars, pctVars, cntVars, returncode, report_out,
                 state, colprof_rc, sanity_called, prev>>
  /\ UNCHANGED <<setupVars, ioVars>>

\* lines 1804-1840: the submenu loops until "3" is pressed
Submenu ==
  /\ pc = "submenu"
  /\ \E key \in {"1", "2", "3", "x"} :
       /\ choice' = key
       /\ IF key = "3"
            THEN ret' = "True" /\ pc' = "menu"
            ELSE UNCHANGED <<ret, pc>>
  /\ UNCHANGED <<runs, sanity_file, display, delta_e_values,
                 rangeVars, posVars, pctVars, cntVars,
                 returncode, report_out, menuVars, prev>>
  /\ UNCHANGED <<setupVars, ioVars>>

\* ------------------------------------------------------------ main_menu
\* the one profile name, the folder of the selected file and the folder a
\* copy is made into
ProfileName == "P"
SourceFolder == "src"
NewFolder == "new"

\* the target images found next to <name>.ti2 in a folder
Tifs(folder) == << [folder |-> folder, file |-> "P.tif"] >>

\* keys getch may return at the main-menu prompt
Keys == {"1", "2", "3", "4", "5", "6", "7", "8", "9", "x"}

menuFrame == <<pc, runs, sanity_file, display, ret, choice, delta_e_values,
               rangeVars, posVars, pctVars, cntVars, returncode, report_out,
               prev>>

\* lines 2319-2333: the top of the loop reloads the setup file and clears
\* nine fields of AppState
LoopTop ==
  /\ pc = "menu"
  /\ mpc = "top"
  /\ state' = [state EXCEPT !.source_folder = "", !.dialog_title = "",
                            !.name = "", !.desc = "", !.action = "",
                            !.profile_folder = "", !.new_name = "",
                            !.ti3_mtime_before = "", !.ti3_mtime_after = ""]
  /\ colprof_rc' = Unset
  /\ sanity_called' = FALSE
  /\ mpc' = "prompt"
  /\ cfg' = load_setup_file_shell_style(setup_file)
  /\ chartread' = NoChartread(chartread.on)
  /\ selected' = NoSelected(selected.on)
  /\ UNCHANGED <<menuFrame, setup_file, call, entry>>

\* lines 2376-2510: the prompt is shown, a key is read and dispatched on;
\* edit_setup_parameters begins by loading the setup file (line 2115)
Answer(keys) ==
  /\ pc = "menu"
  /\ mpc = "prompt"
  /\ \E answer \in keys :
       /\ state' =
            IF answer \in {"2", "3", "4", "5"}
              THEN [state EXCEPT !.action = answer,
                                 !.dialog_title = DialogTitle(answer)]
            ELSE IF answer \in {"1", "6", "7", "8", "9"}
              THEN [state EXCEPT !.action = answer]
            ELSE state
       /\ mpc' = CASE answer = "1" -> "specify_name"
                   [] answer \in {"2", "3", "4", "5"} -> "select_file"
                   [] answer = "6" -> "edit_setup"
                   [] answer = "9" -> "exited"
                   [] OTHER -> "top"
       /\ pc' = IF answer = "9" THEN "exited" ELSE pc
       /\ cfg' = IF answer = "6" THEN load_setup_file_shell_style(setup_file)
                 ELSE cfg
  /\ UNCHANGED <<runs, sanity_file, display, ret, choice, delta_e_values,
                 rangeVars, posVars, pctVars, cntVars, returncode, report_out,
                 colprof_rc, sanity_called, prev, setup_file, call, entry,
                 ioVars>>

\* lines 954-983, with prepare_profile_folder (lines 659-791)
SpecifyProfileName ==
  /\ mpc = "specify_name"
  /\ \/ /\ mpc' = "abort"
        /\ UNCHANGED state
     \/ /\ mpc' = "abort"
        /\ state' = [state EXCEPT !.name = ProfileName,
                                  !.new_name = ProfileName,
                                  !.desc = ProfileName]
     \/ /\ mpc' = "select_instrument"
        /\ state' = [state EXCEPT !.name = ProfileName,
                                  !.new_name = ProfileName,
                                  !.desc = ProfileName,
                                  !.profile_folder = NewFolder]
  /\ UNCHANGED <<menuFrame, colprof_rc, sanity_called>>
  /\ UNCHANGED <<setupVars, ioVars>>

\* lines 984-1066
SelectInstrument ==
  /\ mpc = "select_instrument"
  /\ mpc' \in {"generate_target", "abort"}
  /\ UNCHANGED <<menuFrame, state, colprof_rc, sanity_called>>
  /\ UNCHANGED <<setupVars, ioVars>>

\* lines 1069-1526: targen and printtarg; the charts made are recorded
\* (line 1483)
SpecifyAndGenerateTarget ==
  /\ mpc = "generate_target"
  /\ \/ /\ mpc' = "abort"
        /\ UNCHANGED state
     \/ /\ mpc' = "measure"
        /\ state' = [state EXCEPT !.tif_files = Tifs(state.profile_folder)]
  /\ UNCHANGED <<menuFrame, colprof_rc, sanity_called>>
  /\ UNCHANGED <<setupVars, ioVars>>

\* the target images of state after copy and rename into its profile
\* folder (lines 856-865, 925-948)
CopiedTifs(st) ==
  [i \in 1..Len(st.tif_files) |->
     [st.tif_files[i] EXCEPT !.folder = st.profile_folder]]

\* allowed_suffixes (lines 447-472); no action but 2 to 6 has any
allowed_suffixes_any(action) ==
  {<<".", "t", "i", "2">>, <<".", "t", "i", "3">>, <<".", "i", "c", "c">>,
   <<".", "i", "c", "m">>}

allowed_suffixes(action) ==
  CASE action = "6" -> {<<".", "i", "c", "c">>, <<".", "i", "c", "m">>}
    [] action = "3" -> {<<".", "t", "i", "2">>}
    [] action \in {"2", "4", "5"} -> {<<".", "t", "i", "3">>}
    [] OTHER -> {}

\* what select_file returns, the state it leaves and whether it opened
\* the dialog
Returned(r, st, d) == [ret |-> r, state |-> st, dialog |-> d]

\* select_file (lines 435-617) with the copy/overwrite submenu (lines
\* 369-432), for the file sel picked in the dialog (empty: cancelled; the
\* files offered are <ProfileName>.* in SourceFolder), given whether the
\* matching .ti2 and .icc are files, the matching target images tifs,
\* whether os.chdir succeeds and how the submenu ends
select_file(st, sel, ti2, icc, tifs, chdir, sub) ==
  LET a == st.action
      picked == [st EXCEPT !.name = ProfileName, !.desc = ProfileName,
                           !.source_folder = SourceFolder]
      found == IF a \in {"2", "3"}
                 THEN [picked EXCEPT !.tif_files = tifs] ELSE picked
      here == [found EXCEPT !.profile_folder = SourceFolder]
      prepared == [found EXCEPT !.new_name = ProfileName,
                                !.profile_folder = NewFolder,
                                !.desc = ProfileName]
      renamed == [prepared EXCEPT !.tif_files = CopiedTifs(prepared)]
      checked == IF a # "4"
                   THEN [renamed EXCEPT !.tif_files = Tifs(NewFolder)]
                   ELSE renamed
  IN  IF allowed_suffixes(a) = {} THEN Returned(FALSE, st, FALSE)
      ELSE IF sel = <<>> THEN Returned(FALSE, st, TRUE)
      ELSE IF lower(suffix(sel)) \notin allowed_suffixes(a)
        THEN Returned(FALSE, st, TRUE)
      ELSE IF a = "6"
        THEN Returned(TRUE, [st EXCEPT !.new_icc_path = sel], TRUE)
      ELSE IF a = "2" /\ ~ti2 THEN Returned(FALSE, picked, TRUE)
      ELSE IF a = "5" /\ ~icc THEN Returned(FALSE, picked, TRUE)
      ELSE IF a \in {"2", "3"} /\ tifs = <<>> THEN Returned(FALSE, picked, TRUE)
      ELSE IF a \in {"4", "5"} /\ ~chdir THEN Returned(FALSE, here, TRUE)
      ELSE IF a = "5" THEN Returned(TRUE, here, TRUE)
      ELSE CASE sub = "3" ->
                  Returned(FALSE, IF a = "4" THEN here ELSE found, TRUE)
             [] sub = "2" -> Returned(chdir, here, TRUE)
             [] sub = "1 fails early" -> Returned(FALSE, prepared, TRUE)
             [] sub = "1 fails late" -> Returned(FALSE, renamed, TRUE)
             [] sub = "1" -> Returned(TRUE, checked, TRUE)

\* files the dialog may return: none, and files of SourceFolder
Selections ==
  {<<>>, <<"/", "s", "r", "c", "/", "P", ".", "t", "i", "2">>,
   <<"/", "s", "r", "c", "/", "P", ".", "t", "i", "3">>,
   <<"/", "s", "r", "c", "/", "P", ".", "T", "I", "3">>,
   <<"/", "s", "r", "c", "/", "P", ".", "i", "c", "c">>,
   <<"/", "s", "r", "c", "/", "P", ".", "t", "x", "t">>}

\* ways the copy/overwrite submenu ends
SubmenuEnds == {"1", "1 fails early", "1 fails late", "2", "3"}

\* the call put on record
Selection(action, sel, ti2, icc, tifs, r) ==
  [on |-> TRUE, action |-> action, path |-> sel, ti2 |-> ti2, icc |-> icc,
   tifs |-> tifs, dialog |-> r.dialog,
   ret |-> IF r.ret THEN "True" ELSE "False"]

\* main_menu calls select_file in actions 2 to 5 (lines 2414, 2434, 2454,
\* 2474) and goes on to the next step of the action if it returns True
SelectFile ==
  /\ mpc = "select_file"
  /\ \E sel \in Selections,
        ti2 \in (IF state.action = "2" THEN BOOLEAN ELSE {FALSE}),
        icc \in (IF state.action = "5" THEN BOOLEAN ELSE {FALSE}),
        tifs \in (IF state.action \in {"2", "3"}
                    THEN {<<>>, Tifs(SourceFolder)} ELSE {<<>>}),
        chdir \in BOOLEAN,
        sub \in (IF state.action \in {"2", "3", "4"}
                   THEN SubmenuEnds ELSE {"3"}) :
       LET r == select_file(state, sel, ti2, icc, tifs, chdir, sub)
       IN  /\ state' = r.state
           /\ selected' = IF selected.on
                            THEN Selection(state.action, sel, ti2, icc, tifs, r)
                            ELSE selected
           /\ mpc' = IF ~r.ret THEN "abort"
                     ELSE CASE state.action = "5" -> "call_sanity"
                            [] state.action = "4" -> "colprof"
                            [] OTHER -> "measure"
  /\ UNCHANGED <<menuFrame, colprof_rc, sanity_called, chartread>>
  /\ UNCHANGED setupVars

\* file_mtime of <name>.ti3 before chartread ran (lines 1900-1903): None
\* unless the action is 2 and the file exists
Ti3MtimeBefore(action, existed, mtime) ==
  IF action = "2" /\ existed THEN mtime ELSE Unset

\* chartread is taken to have written nothing new whatever the .ti3 shows
Ti3Written_any(action, exists, before, after) == TRUE

\* lines 1928-1948: after chartread the .ti3 exists and, in action 2 with
\* a modification time taken before, that time has changed
Ti3Written(action, exists, before, after) ==
  IF action = "2"
    THEN exists /\ (before = Unset \/ after # before)
    ELSE exists

\* perform_measurement_and_profile_creation up to colprof (lines
\* 1849-1980): y or n is awaited (any other key asks again), chartread
\* runs, the .ti3 is looked at, and the operator is asked whether to go on
Measure ==
  /\ mpc = "measure"
  /\ \E again \in {"y", "n"},
        existed \in (IF state.action = "2" THEN BOOLEAN ELSE {FALSE}),
        rc \in {0, 1, 127},
        exists \in BOOLEAN, mtime_after \in {1, 2}, cont \in {"y", "Y", "n"} :
       LET before == Ti3MtimeBefore(state.action, existed, 1)
           ran == again = "y"
           read == ran /\ rc = 0
           after == IF read /\ exists /\ before # Unset
                      THEN mtime_after ELSE Unset
           asked == read /\ Ti3Written(state.action, exists, before, after)
           go == asked /\ lower(<<cont>>) = <<"y">>
       IN  /\ chartread' =
                IF chartread.on
                  THEN [on |-> TRUE, again |-> again,
                        ti3_mtime_before |-> IF ran THEN before ELSE Unset,
                        returncode |-> IF ran THEN rc ELSE Unset,
                        ti3_exists |-> read /\ exists,
                        ti3_mtime_after |-> after,
                        cont |-> IF asked THEN cont ELSE ""]
                  ELSE chartread
           /\ mpc' = IF go THEN "colprof" ELSE "abort"
  /\ UNCHANGED <<menuFrame, state, colprof_rc, sanity_called, selected>>
  /\ UNCHANGED setupVars

\* run_cmd(colprof_args) (lines 1982-1985, 2023-2026); run_cmd returns 127
\* when the command is not found (lines 265-292)
Colprof ==
  /\ mpc = "colprof"
  /\ \E rc \in {0, 1, 127} :
       /\ colprof_rc' = rc
       /\ mpc' = IF rc # 0 THEN "abort" ELSE "call_sanity"
  /\ UNCHANGED <<menuFrame, state, sanity_called>>
  /\ UNCHANGED <<setupVars, ioVars>>

\* install allowed whatever sanity_check returned
SanityReturned_always ==
  /\ pc = "menu"
  /\ mpc = "in_sanity"
  /\ mpc' = IF state.action = "5" THEN "top" ELSE "install"
  /\ prev' = IF prev.on THEN Snapshot ELSE prev
  /\ UNCHANGED <<pc, runs, sanity_file, display, ret, choice, delta_e_values,
                 rangeVars, posVars, pctVars, cntVars, returncode, report_out,
                 state, colprof_rc, sanity_called>>
  /\ UNCHANGED <<setupVars, ioVars>>

\* sanity_check has returned to its caller (lines 1992-1994, 2033-2035,
\* 2479-2482): False is passed up to main_menu; True lets actions 1 to 4
\* go on to install_profile_and_save_data and ends action 5; the call is
\* put on record
SanityReturned ==
  /\ pc = "menu"
  /\ mpc = "in_sanity"
  /\ mpc' = IF ret # "True" THEN "abort"
            ELSE IF state.action = "5" THEN "top" ELSE "install"
  /\ prev' = IF prev.on THEN Snapshot ELSE prev
  /\ UNCHANGED <<pc, runs, sanity_file, display, ret, choice, delta_e_values,
                 rangeVars, posVars, pctVars, cntVars, returncode, report_out,
                 state, colprof_rc, sanity_called>>
  /\ UNCHANGED <<setupVars, ioVars>>

\* lines 2038-2110
InstallProfileAndSaveData ==
  /\ mpc = "install"
  /\ mpc' \in {"top", "abort"}
  /\ UNCHANGED <<menuFrame, state, colprof_rc, sanity_called>>
  /\ UNCHANGED <<setupVars, ioVars>>

\* re.fullmatch(r'^[0-9]+(\.[0-9]+)?$', value) (line 2186)
IsUnsignedDecimal(value) ==
  LET i == DigitRunEnd(value, 1)
  IN  /\ i >= 1
      /\ \/ i = Len(value)
         \/ /\ i + 2 <= Len(value) /\ value[i + 1] = "."
            /\ DigitRunEnd(value, i + 2) = Len(value)

\* every value taken for a paper size
IsPaperSize_any(value) == TRUE

\* value in ["A4", "Letter"] (line 2196)
IsPaperSize(value) ==
  value \in {<<"A", "4">>, <<"L", "e", "t", "t", "e", "r">>}

\* not (value and (not value.isdigit() or not (0 <= int(value) <= 400)))
\* (line 2206)
IsInkLimit(value) ==
  \/ value = <<>>
  \/ /\ \A i \in 1..Len(value) : value[i] \in Digit
     /\ IntVal(value) <= 400

\* re.fullmatch(r"[A-Za-z0-9._()\-]+", value) (line 2218)
IsFileNaming(value) ==
  /\ value # <<>>
  /\ \A i \in 1..Len(value) :
       value[i] \in Upper \cup Lower \cup Digit \cup {".", "_", "(", ")", "-"}

\* the key a choice of the setup menu writes, and the test its value passes
SetupKey(answer) ==
  CASE answer = "1" -> PRINTER_ICC_PATH
    [] answer = "2" -> PRECONDITIONING_PROFILE_PATH
    [] answer = "3" -> STRIP_PATCH_CONSISTENSY_TOLERANCE
    [] answer = "4" -> PAPER_SIZE
    [] answer = "5" -> INK_LIMIT
    [] answer = "6" -> EXAMPLE_FILE_NAMING

Accepted(answer, value) ==
  CASE answer = "3" -> IsUnsignedDecimal(value)
    [] answer = "4" -> IsPaperSize(value)
    [] answer = "5" -> IsInkLimit(value)
    [] answer = "6" -> IsFileNaming(value)

\* one turn of the loop of edit_setup_parameters (lines 2118-2238): a key
\* is read; choices 1 and 2 run select_file with action 6, which records
\* the profile picked (line 531); choices 3 to 6 read a line and strip it;
\* a value that passes its test is written to the setup file and to cfg;
\* 7 returns to main_menu; any other key shows the menu again
EditSetupParameters(answers, inputs) ==
  /\ pc = "menu"
  /\ mpc = "edit_setup"
  /\ \E answer \in answers, typed \in inputs :
       LET picks == answer \in {"1", "2"}
           value == IF picks THEN typed ELSE strip(typed)
           r == select_file([state EXCEPT !.action = "6"], typed,
                            FALSE, FALSE, <<>>, FALSE, "3")
           writes == IF picks THEN r.ret
                     ELSE answer \in {"3", "4", "5", "6"}
                            /\ Accepted(answer, value)
       IN  /\ entry' = [answer |-> answer, typed |-> typed]
           /\ state' = IF picks THEN r.state ELSE state
           /\ setup_file' =
                IF writes
                  THEN update_setup_value_shell_style(setup_file,
                                                      SetupKey(answer), value)
                  ELSE setup_file
           /\ cfg' = IF writes THEN Assign(cfg, SetupKey(answer), value)
                     ELSE cfg
           /\ mpc' = IF answer = "7" THEN "top" ELSE mpc
  /\ UNCHANGED <<menuFrame, colprof_rc, sanity_called, call, ioVars>>

\* "Operation aborted." is logged, enter is awaited, the loop continues
Abort ==
  /\ mpc = "abort"
  /\ mpc' = "top"
  /\ UNCHANGED <<menuFrame, state, colprof_rc, sanity_called>>
  /\ UNCHANGED <<setupVars, ioVars>>

\* the operator asks for the sanity check only
AnswerFive == Answer({"5"})

Next ==
  \/ LoopTop
  \/ AnswerFive
  \/ SelectFile
  \/ CallSanityCheck
  \/ OpenReport
  \/ Profcheck1
  \/ Parse
  \/ RangeAndPositions
  \/ PercentilesAndCounts
  \/ Display
  \/ AppendBlock
  \/ Profcheck2
  \/ Submenu
  \/ SanityReturned
  \/ Abort

Spec == Init /\ [][Next]_vars

\* every key at the prompt, with short reports
ShortTexts == SeqsUpTo({LinePatchA, LineNoAt}, 1)

AnswerAny == Answer(Keys)

\* in the setup menu the operator picks a profile or goes back
ProfileP == <<"/", "P", ".", "i", "c", "c">>

EditSetupMain == EditSetupParameters({"1", "7"}, {<<>>, ProfileP})

Profcheck1Short == Profcheck1Run(ShortTexts)

NextMenu ==
  \/ LoopTop
  \/ AnswerAny
  \/ SpecifyProfileName
  \/ SelectInstrument
  \/ SpecifyAndGenerateTarget
  \/ SelectFile
  \/ Measure
  \/ Colprof
  \/ CallSanityCheck
  \/ OpenReport
  \/ Profcheck1Short
  \/ Parse
  \/ RangeAndPositions
  \/ PercentilesAndCounts
  \/ Display
  \/ AppendBlock
  \/ Profcheck2
  \/ Submenu
  \/ SanityReturned
  \/ InstallProfileAndSaveData
  \/ EditSetupMain
  \/ Abort

InitMenu == Start(TRUE) /\ SetupLoaded(SetupShipped) /\ Unrecorded

SpecMenu == InitMenu /\ [][NextMenu]_vars

\* the same program, started where a long report has just been written
SpecLong == InitLong /\ [][Next]_vars

\* the same program, started where the first of two runs on the same
\* report file has just had its short report written
InitRerun ==
  /\ pc = "parse"
  /\ report_out \in SeqsUpTo({LinePatchA, LinePatchF}, 1)
  /\ sanity_file = report_out
  /\ InSanityCheck(TRUE)
  /\ LocalsUnset

SpecRerun == InitRerun /\ [][Next]_vars

\* get_percentile taken as a function of its argument: the state in which
\* the percentiles are about to be read, with every position from 0 to
\* one past the sample
InitPercentile ==
  /\ pc = "percentiles"
  /\ report_out \in SeqsUpTo({LinePatchA, LinePatchF}, MaxLines) \ {<<>>}
  /\ sanity_file = report_out \o <<Blank, Blank>>
  /\ InSanityCheck(FALSE)
  /\ delta_e_values = ParseValues(sanity_file)
  /\ largest = First(delta_e_values)
  /\ smallest = Last(delta_e_values)
  /\ range_val = largest - smallest
  /\ total_patches = Len(delta_e_values)
  /\ pos_99 \in 0..(total_patches + 1)
  /\ pos_98 \in 0..(total_patches + 1)
  /\ pos_95 \in 0..(total_patches + 1)
  /\ pos_90 \in 0..(total_patches + 1)
  /\ percentile_99 = 0 /\ percentile_98 = 0
  /\ percentile_95 = 0 /\ percentile_90 = 0
  /\ count_lt_1 = 0 /\ count_lt_2 = 0 /\ count_lt_3 = 0
  /\ percent_lt_1 = <<0, 1>> /\ percent_lt_2 = <<0, 1>>
  /\ percent_lt_3 = <<0, 1>>

SpecPercentile == InitPercentile /\ [][Next]_vars

\* a report of LargeCount patch lines, the last below of them under every
\* threshold and the others over every threshold
LargeReport(below) ==
  [i \in 1..LargeCount |->
     IF i <= LargeCount - below THEN LinePatchA ELSE LinePatchF]

\* the same program, started where the first profcheck run of a call has
\* just written a report of LargeCount patches, about half of them below
\* the thresholds
InitLarge ==
  /\ pc = "parse"
  /\ report_out \in {LargeReport(b) :
                        b \in (LargeCount \div 2)..(LargeCount \div 2 + 1)}
  /\ sanity_file = report_out
  /\ InSanityCheck(FALSE)
  /\ LocalsUnset

SpecLarge == InitLarge /\ [][Next]_vars

\* ---------------------------------------------- the chartread step on record
\* main_menu with the chartread step of each iteration recorded
InitMeasure ==
  /\ Start(FALSE)
  /\ SetupLoaded(SetupShipped)
  /\ chartread = NoChartread(TRUE)
  /\ selected = NoSelected(FALSE)

SpecMeasure == InitMeasure /\ [][NextMenu]_vars

\* ------------------------------------------------------ select_file, called
\* select_file is about to be called with state.action set
SelectFileEntered ==
  /\ pc = "menu"
  /\ mpc = "top"
  /\ \E a \in {"", "1", "2", "3", "4", "5", "6", "7"} :
       state' = [AppState EXCEPT !.action = a]
  /\ mpc' = "select_file"
  /\ UNCHANGED <<menuFrame, colprof_rc, sanity_called, setupVars, ioVars>>

\* select_file(state, cfg, log) is called (lines 435-617) and returns
SelectFileAny ==
  /\ pc = "menu"
  /\ mpc = "select_file"
  /\ \E sel \in Selections, ti2 \in BOOLEAN, icc \in BOOLEAN,
        tifs \in {<<>>, Tifs(SourceFolder)}, chdir \in BOOLEAN,
        sub \in SubmenuEnds :
       LET r == select_file(state, sel, ti2, icc, tifs, chdir, sub)
       IN  /\ state' = r.state
           /\ selected' = Selection(state.action, sel, ti2, icc, tifs, r)
  /\ mpc' = "top"
  /\ UNCHANGED <<menuFrame, colprof_rc, sanity_called, setupVars, chartread>>

InitSelectFile ==
  /\ Start(FALSE)
  /\ SetupLoaded(SetupShipped)
  /\ chartread = NoChartread(FALSE)
  /\ selected = NoSelected(TRUE)

NextSelectFile ==
  \/ SelectFileEntered
  \/ SelectFileAny

\* select_file taken as a function of state.action, of what the dialog
\* returns and of the files next to the one picked
SpecSelectFile == InitSelectFile /\ [][NextSelectFile]_vars

\* ------------------------------------------- the setup file, read and written
\* values handed to update_setup_value_shell_style: on one line
SingleLineValues ==
  {<<>>, <<"A", "4">>, <<"a", " ", "b">>, <<" ", "a", " ">>, <<"'">>, <<"'",
  "a", "'">>, <<"\"", "a", "\"">>, <<"#", "a">>, <<"a", "#", "b">>, <<" ",
  "#">>, <<"a", " ", "#", "b">>, <<"/", "p", " ", "#", "2", "/", "P", ".",
  "i", "c", "c">>}

\* and with a line break in them
MultiLineValues ==
  {<<"a", "\n", "b">>, <<"x", "'", "\n", "I", "N", "K", "_", "L", "I", "M",
  "I", "T", "=", "'", "9">>}

SetupValues == SingleLineValues \cup MultiLineValues

\* keys handed to it: two the setup files hold and one they do not
SetupKeys == {PAPER_SIZE, INK_LIMIT, EXAMPLE_FILE_NAMING}

\* the setup files it is called on, the empty one among them
SetupFiles == {<<>>, SetupPlain, SetupMixed, SetupNearMiss}

\* update_setup_value_shell_style(path, key, value) is called (lines
\* 226-244) on a file whose content load_setup_file_shell_style has read
UpdateSetupValue ==
  /\ call.loaded
  /\ call.n < MaxUpdates
  /\ \E key \in SetupKeys, value \in SetupValues :
       /\ setup_file' = update_setup_value_shell_style(setup_file, key, value)
       /\ call' = [n |-> call.n + 1, key |-> key, value |-> value,
                   before |-> setup_file, loaded |-> FALSE]
  /\ UNCHANGED <<pc, runs, sanity_file, display, ret, choice, delta_e_values,
                 rangeVars, posVars, pctVars, cntVars, returncode, report_out,
                 menuVars, prev, cfg, entry, ioVars>>

\* load_setup_file_shell_style(path) is called on the file just written
\* (lines 187-223)
LoadSetupFile ==
  /\ ~call.loaded
  /\ cfg' = load_setup_file_shell_style(setup_file)
  /\ call' = [call EXCEPT !.loaded = TRUE]
  /\ UNCHANGED <<pc, runs, sanity_file, display, ret, choice, delta_e_values,
                 rangeVars, posVars, pctVars, cntVars, returncode, report_out,
                 menuVars, prev, setup_file, entry, ioVars>>

InitSetupFile ==
  /\ Start(FALSE)
  /\ \E text \in SetupFiles : SetupLoaded(text)
  /\ Unrecorded

NextSetupFile ==
  \/ UpdateSetupValue
  \/ LoadSetupFile

\* the two functions of the setup file, taken as functions of their
\* arguments
SpecSetupFile == InitSetupFile /\ [][NextSetupFile]_vars

\* ------------------------------------------------------ the setup menu
\* what the operator may type at a prompt of the setup menu, or pick in
\* its file dialog (the empty text: nothing typed, nothing picked)
TypedInputs ==
  {<<>>, <<" ", "L", "e", "t", "t", "e", "r", " ">>, <<"0",
  ".", "6">>, <<"4", "0", "0">>, <<"4", "0", "1">>, <<"/", "P", ".", "I",
  "C", "M">>}

AnswerSix == Answer({"6"})

EditSetupAny ==
  EditSetupParameters({"1", "2", "3", "4", "5", "6", "7", "8"}, TypedInputs)

NextSetupMenu ==
  \/ LoopTop
  \/ AnswerSix
  \/ EditSetupAny

\* main_menu with the operator choosing 6 at its prompt, and everything
\* edit_setup_parameters can then be told
SpecSetupMenu == Init /\ [][NextSetupMenu]_vars

\* ============================================================ properties
\* stages of a call in which the locals named are assigned
HasSample == {"positions", "percentiles", "display", "append"}
HasPositions == {"percentiles", "display", "append", "profcheck2", "submenu"}
HasSummary == {"display", "append", "profcheck2", "submenu"}

IsDescending(S) == \A i \in 1..(Len(S) - 1) : S[i] >= S[i + 1]

\* a line of the form "[<digits>.<digits>] ... @ ...", surrounding
\* whitespace aside; a, b, c are the places of "[", "." and "]"
BracketAt(raw, a) ==
  raw[a] = "[" /\ \A x \in 1..(a - 1) : raw[x] \in Whitespace

PointAt(raw, a, b) ==
  raw[b] = "." /\ \A x \in (a + 1)..(b - 1) : raw[x] \in Digit

CloseAt(raw, b, c) ==
  /\ raw[c] = "]" /\ \A x \in (b + 1)..(c - 1) : raw[x] \in Digit
  /\ \E k \in (c + 1)..Len(raw) : raw[k] = "@"

IsPatchLine(raw) ==
  \E a \in 1..Len(raw) :
    /\ BracketAt(raw, a)
    /\ \E b \in (a + 2)..Len(raw) :
         /\ PointAt(raw, a, b)
         /\ \E c \in (b + 2)..Len(raw) : CloseAt(raw, b, c)

\* the bracketed decimal of a patch line, times Scale: the digit at place x
\* weighs 10^(b - 1 - x) before the point and 10^(b - x) after it
RECURSIVE Weight(_)
Weight(k) == IF k = 0 THEN Scale ELSE IF k < 0 THEN Weight(k + 1) \div 10
             ELSE Weight(k - 1) * 10

RECURSIVE SumDigits(_, _, _)
SumDigits(raw, places, dot) ==
  IF places = {} THEN 0
  ELSE LET x == CHOOSE y \in places : TRUE
       IN  DigitVal(raw[x]) * Weight(IF x < dot THEN dot - 1 - x ELSE dot - x)
             + SumDigits(raw, places \ {x}, dot)

BracketedDecimal(raw) ==
  LET a == CHOOSE x \in 1..Len(raw) : BracketAt(raw, x)
      b == CHOOSE x \in (a + 2)..Len(raw) : PointAt(raw, a, x)
      c == CHOOSE x \in (b + 2)..Len(raw) : CloseAt(raw, b, x)
  IN  SumDigits(raw, ((a + 1)..(c - 1)) \ {b}, b)

\* the r-th patch line of a text
PatchLineNo(text, r) ==
  CHOOSE n \in 1..Len(text) :
    /\ IsPatchLine(text[n])
    /\ Cardinality({m \in 1..(n - 1) : IsPatchLine(text[m])}) = r - 1

\* C1: the parsed sample holds exactly one value per matching line of the
\* report, equal to the bracketed decimal of that line, in the order of the
\* lines in the file; nothing is sorted, dropped or merged.
C1_ParseInFileOrder ==
  pc \in HasSample =>
    /\ Len(delta_e_values) =
         Cardinality({n \in 1..Len(sanity_file) : IsPatchLine(sanity_file[n])})
    /\ \A r \in 1..Len(delta_e_values) :
         delta_e_values[r] =
           BracketedDecimal(sanity_file[PatchLineNo(sanity_file, r)])

\* a report with an ignored line and values in ascending order
C1_Witness ==
  /\ pc = "positions"
  /\ sanity_file = <<LineNoAt, LinePatchF, LinePatchA, Blank, Blank>>
  /\ delta_e_values = <<50, 520>>

\* ceil(n * p / 100), stated by its defining inequalities
CeilPct(n, p) == CHOOSE k \in 0..n : 100 * k >= n * p /\ 100 * (k - 1) < n * p

PercentileOf(p) ==
  CASE p = 99 -> percentile_99 [] p = 98 -> percentile_98
    [] p = 95 -> percentile_95 [] p = 90 -> percentile_90

PosOf(p) ==
  CASE p = 99 -> pos_99 [] p = 98 -> pos_98
    [] p = 95 -> pos_95 [] p = 90 -> pos_90

\* C2: for a non-empty sample S of length n and p in {90, 95, 98, 99} the
\* reported percentile is S[n - position] (0-based), position =
\* ceil(n * p / 100); for S = [5.20, 3.10, 0.50] the 90th percentile has
\* position 3, index 0 and value 5.20.
C2_PercentileByCeilPosition ==
  pc \in HasSummary =>
    /\ \A p \in Percentiles :
         /\ PosOf(p) = CeilPct(Len(delta_e_values), p)
         /\ PercentileOf(p) =
              delta_e_values[(Len(delta_e_values) - CeilPct(Len(delta_e_values), p)) + 1]
    /\ delta_e_values = <<520, 310, 50>> =>
         pos_90 = 3 /\ percentile_90 = 520

\* a sample of ten values whose 90th percentile is not its first element
C2_Witness ==
  /\ pc = "display"
  /\ Len(delta_e_values) = 10
  /\ pos_90 = 9 /\ pos_99 = 10
  /\ percentile_90 = delta_e_values[2]
  /\ percentile_90 # delta_e_values[1]

\* C3 as stated: in a descending sample the element read at 0-based index
\* sample_count - position is the element at rank position counted from
\* the largest end (0-based index position - 1).
C3_RankFromWorstEnd ==
  (pc \in HasSummary /\ IsDescending(delta_e_values)) =>
    \A p \in Percentiles :
      percentile_index(delta_e_values, PosOf(p)) = PosOf(p) - 1

\* C3: in a descending sample the element read at 0-based index
\* sample_count - position is the one at rank position counted from the
\* smallest (last) end: fewer than position values are below it and at
\* least position values are not above it.
C3_RankFromBestEnd ==
  (pc \in HasSummary /\ IsDescending(delta_e_values)) =>
    \A p \in Percentiles :
      LET S == delta_e_values
          v == PercentileOf(p)
      IN  /\ percentile_index(S, PosOf(p)) = (Len(S) - 1) - (PosOf(p) - 1)
          /\ v = S[Len(S) - (PosOf(p) - 1)]
          /\ Cardinality({i \in 1..Len(S) : S[i] < v}) < PosOf(p)
          /\ Cardinality({i \in 1..Len(S) : S[i] <= v}) >= PosOf(p)

\* a descending sample of ten values, nine of them small: rank 9 from the
\* smallest end is a small value, rank 9 from the largest end too, yet the
\* element read (index 1) is not the one at index 8
C3_Witness ==
  /\ pc = "display"
  /\ delta_e_values = <<520, 520, 50, 50, 50, 50, 50, 50, 50, 50>>
  /\ pos_90 = 9
  /\ percentile_90 = 520

\* C4 as stated: for a descending sample and p1 < p2 the value reported for
\* p1 is greater than or equal to the value reported for p2.
C4_MonotoneDecreasing ==
  (pc \in HasSummary /\ IsDescending(delta_e_values)) =>
    \A p1, p2 \in Percentiles :
      p1 < p2 => PercentileOf(p1) >= PercentileOf(p2)

\* C4: for a descending sample and p1 < p2 the value reported for p1 is
\* less than or equal to the value reported for p2.
C4_MonotoneIncreasing ==
  (pc \in HasSummary /\ IsDescending(delta_e_values)) =>
    \A p1, p2 \in Percentiles :
      p1 < p2 => PercentileOf(p1) <= PercentileOf(p2)

\* a descending sample whose 90th percentile is below its 99th
C4_Witness ==
  /\ pc = "append"
  /\ IsDescending(delta_e_values)
  /\ Len(delta_e_values) = 10
  /\ percentile_90 < percentile_95
  /\ percentile_95 = percentile_99

\* ---------------------------------------------------------------------
\* the analysis blocks of a file, by their header lines
BlockStarts(text) == {i \in 1..Len(text) : text[i] = BlockHeader}
BlockCount(text) == Cardinality(BlockStarts(text))

\* the block this call would write from its locals
OwnBlock ==
  BlockLines(largest, smallest, percentile_99, percentile_98,
             percentile_95, percentile_90,
             percent_lt_1, percent_lt_2, percent_lt_3)

Succeeded == pc \in {"profcheck2", "submenu"} \/ (pc = "menu" /\ ret = "True")

\* C5 as stated: repeated runs append rather than overwrite, the blocks of
\* earlier runs are preserved: no step takes an analysis block out of the
\* report file.
C5_BlocksPreserved ==
  [][BlockCount(sanity_file') >= BlockCount(sanity_file)]_vars

\* C5: the block is appended behind the profcheck report of the same run,
\* but every run first truncates the file: the file never holds more than
\* one analysis block, and after a run got past the append it holds
\* exactly the block of that run, behind the report it was computed from.
C5_OnlyLastRunsBlock ==
  /\ BlockCount(sanity_file) <= 1
  /\ Succeeded =>
       /\ BlockCount(sanity_file) = 1
       /\ LET h == CHOOSE i \in BlockStarts(sanity_file) : TRUE
          IN  /\ SubSeq(sanity_file, h - 1, h + Len(OwnBlock) - 2) = OwnBlock
              /\ ParseValues(SubSeq(sanity_file, 1, h - 2)) = delta_e_values

\* the second run on the same file has appended its block
C5_Witness ==
  /\ runs = 2
  /\ pc = "menu" /\ ret = "True"
  /\ BlockCount(sanity_file) = 1
  /\ delta_e_values = <<310, 50>>

\* labels of the statistics lines of the display
StatLabels ==
  {"Delta E Range Analysis:", "  Largest dE:  ", "  Smallest dE: ",
   "Percentile Values:", "  99th percentile: ", "  98th percentile: ",
   "  95th percentile: ", "  90th percentile: ", "Patch Count Analysis:",
   "  Percent of patches with dE<1.0: ", "  Percent of patches with dE<2.0: ",
   "  Percent of patches with dE<3.0: "}

HasStats(lines) ==
  \E i \in 1..Len(lines) : lines[i] # <<>> /\ lines[i][1] \in StatLabels

\* C6: when no line of the report matches, sanity_check returns False
\* without rendering: no statistics line is displayed, no block is
\* appended to the file, and no later stage is entered.
C6_EmptySampleFails ==
  (runs > 0 /\ pc \notin {"open", "profcheck1", "parse", "crashed"}
     /\ delta_e_values = <<>>) =>
    /\ pc = "menu" /\ ret = "False"
    /\ ~HasStats(display)
    /\ BlockCount(sanity_file) = 0

\* a report of non-matching lines only was parsed and the call returned
C6_Witness ==
  /\ pc = "menu" /\ ret = "False"
  /\ sanity_file = <<LineInteger, LineNoAt, LineNotFirst, Blank, Blank>>
  /\ delta_e_values = <<>>
  /\ display[Len(display)] = NoValuesFound

\* the text after the label of the first line of lines that has the label
FieldOf(lines, label) ==
  LET i == CHOOSE k \in 1..Len(lines) : lines[k] # <<>> /\ lines[k][1] = label
  IN  Tail(lines[i])

\* C7: the reported largest value is the first element of the sample and
\* the reported smallest value its last element, whatever the order of the
\* sample; for a one-element sample both are that element.
C7_LargestFirstSmallestLast ==
  /\ pc \in HasPositions =>
       /\ largest = delta_e_values[1]
       /\ smallest = delta_e_values[Len(delta_e_values)]
       /\ Len(delta_e_values) = 1 => largest = smallest
  /\ pc \in {"append", "profcheck2", "submenu"} =>
       /\ FieldOf(display, "  Largest dE:  ") = Repr(delta_e_values[1])
       /\ FieldOf(display, "  Smallest dE: ")
            = Repr(delta_e_values[Len(delta_e_values)])

\* an ascending sample: its first element is reported as the largest
C7_Witness ==
  /\ pc = "append"
  /\ delta_e_values = <<50, 310, 520>>
  /\ largest = 50 /\ smallest = 520
  /\ FieldOf(display, "  Largest dE:  ") = <<"0", ".", "5">>

\* ---------------------------------------------------------------------
Rendered == {"append", "profcheck2", "submenu"}
Appended == {"profcheck2", "submenu"}

Abs(x) == IF x < 0 THEN 0 - x ELSE x

\* a rendered percentage "<digits>.<digit>%", in tenths of a percent
TenthsOf(field) ==
  IntVal(SubSeq(field, 1, Len(field) - 3)) * 10 + DigitVal(field[Len(field) - 1])

WellFormedPercent(field) ==
  /\ Len(field) >= 4
  /\ field[Len(field)] = "%" /\ field[Len(field) - 2] = "."
  /\ field[Len(field) - 1] \in Digit
  /\ \A i \in 1..(Len(field) - 3) : field[i] \in Digit

\* k tenths is 100 * count / n rounded to one decimal place
IsRounded(k, count, n) == 2 * Abs(k * n - 1000 * count) <= n

NotBelow(S, t) == Cardinality({i \in 1..Len(S) : ~(S[i] < t)})

ThresholdRow(S, t, count, dlabel, blabel) ==
  /\ count = Len(S) - NotBelow(S, t)
  /\ \A i \in 1..Len(S) : S[i] = t => count <= Len(S) - 1
  /\ pc \in Rendered =>
       /\ WellFormedPercent(FieldOf(display, dlabel))
       /\ IsRounded(TenthsOf(FieldOf(display, dlabel)), count, Len(S))
  /\ pc \in Appended =>
       /\ WellFormedPercent(FieldOf(sanity_file, blabel))
       /\ IsRounded(TenthsOf(FieldOf(sanity_file, blabel)), count, Len(S))

\* C8: for each threshold 1.0, 2.0, 3.0 the count is the number of
\* elements strictly below it (an element equal to it is not counted) and
\* the rendered percentage is 100 * count / len(S) rounded to one decimal
\* place; 1 of 3 renders as 33.3%.
C8_ThresholdCounts ==
  pc \in HasSummary =>
    /\ ThresholdRow(delta_e_values, 1 * Scale, count_lt_1,
                    "  Percent of patches with dE<1.0: ",
                    "Percent of patches with dE<1.0: ")
    /\ ThresholdRow(delta_e_values, 2 * Scale, count_lt_2,
                    "  Percent of patches with dE<2.0: ",
                    "Percent of patches with dE<2.0: ")
    /\ ThresholdRow(delta_e_values, 3 * Scale, count_lt_3,
                    "  Percent of patches with dE<3.0: ",
                    "Percent of patches with dE<3.0: ")
    /\ (pc \in Rendered /\ Len(delta_e_values) = 3 /\ count_lt_1 = 1) =>
         FieldOf(display, "  Percent of patches with dE<1.0: ")
           = <<"3", "3", ".", "3", "%">>

\* a sample with one value below 1.0 and one equal to 1.0
C8_Witness ==
  /\ pc = "profcheck2"
  /\ delta_e_values = <<310, 100, 50>>
  /\ count_lt_1 = 1 /\ count_lt_2 = 2 /\ count_lt_3 = 2
  /\ FieldOf(display, "  Percent of patches with dE<1.0: ")
       = <<"3", "3", ".", "3", "%">>
  /\ FieldOf(sanity_file, "Percent of patches with dE<2.0: ")
       = <<"6", "6", ".", "7", "%">>

Unavailable(pos, n) == pos = 0 \/ pos > n

PercentileLabel(p) ==
  CASE p = 99 -> "  99th percentile: " [] p = 98 -> "  98th percentile: "
    [] p = 95 -> "  95th percentile: " [] p = 90 -> "  90th percentile: "

\* C9: a percentile whose position is 0 or beyond the sample is the
\* sentinel, and it alone: every percentile whose position is in range is
\* the element at index sample_count - position, largest, smallest and the
\* three counts are computed, and the call goes on to render all of them.
C9_UnavailableIsLocal ==
  /\ pc \in HasSummary =>
       /\ \A p \in Percentiles :
            PercentileOf(p) =
              IF Unavailable(PosOf(p), Len(delta_e_values)) THEN NA
              ELSE delta_e_values[Len(delta_e_values) - PosOf(p) + 1]
       /\ largest = delta_e_values[1]
       /\ smallest = delta_e_values[Len(delta_e_values)]
       /\ count_lt_1 = Len(delta_e_values) - NotBelow(delta_e_values, 1 * Scale)
       /\ count_lt_2 = Len(delta_e_values) - NotBelow(delta_e_values, 2 * Scale)
       /\ count_lt_3 = Len(delta_e_values) - NotBelow(delta_e_values, 3 * Scale)
  /\ pc \in Rendered =>
       /\ \A p \in Percentiles :
            FieldOf(display, PercentileLabel(p)) =
              IF Unavailable(PosOf(p), Len(delta_e_values)) THEN <<"N/A">>
              ELSE Repr(delta_e_values[Len(delta_e_values) - PosOf(p) + 1])
       /\ FieldOf(display, "  Largest dE:  ") = Repr(delta_e_values[1])
       /\ WellFormedPercent(FieldOf(display, "  Percent of patches with dE<3.0: "))
  /\ (pc = "percentiles" /\ \E p \in Percentiles :
        Unavailable(PosOf(p), Len(delta_e_values))) => ENABLED PercentilesAndCounts

\* position 0 and a position past the sample next to two positions in range
C9_Witness ==
  /\ pc = "append"
  /\ delta_e_values = <<520, 50>>
  /\ pos_99 = 0 /\ pos_98 = 3 /\ pos_95 = 1 /\ pos_90 = 2
  /\ percentile_99 = NA /\ percentile_98 = NA
  /\ percentile_95 = 50 /\ percentile_90 = 520
  /\ FieldOf(display, "  99th percentile: ") = <<"N/A">>
  /\ FieldOf(display, "  95th percentile: ") = <<"0", ".", "5">>

\* what a labelled line of either rendering is about
KindOf(label) ==
  CASE label \in {"Delta E Range Analysis:", "=== Delta E Range Analysis ==="}
         -> "range"
    [] label \in {"  Largest dE:  ", "Largest dE: "} -> "largest"
    [] label \in {"  Smallest dE: ", "Smallest dE: "} -> "smallest"
    [] label = "Percentile Values:" -> "percentiles"
    [] label \in {"  99th percentile: ", "99th percentile: "} -> "p99"
    [] label \in {"  98th percentile: ", "98th percentile: "} -> "p98"
    [] label \in {"  95th percentile: ", "95th percentile: "} -> "p95"
    [] label \in {"  90th percentile: ", "90th percentile: "} -> "p90"
    [] label = "Patch Count Analysis:" -> "counts"
    [] label \in {"  Percent of patches with dE<1.0: ",
                  "Percent of patches with dE<1.0: "} -> "lt1"
    [] label \in {"  Percent of patches with dE<2.0: ",
                  "Percent of patches with dE<2.0: "} -> "lt2"
    [] label \in {"  Percent of patches with dE<3.0: ",
                  "Percent of patches with dE<3.0: "} -> "lt3"
    [] OTHER -> "none"

\* the labelled lines of a text, each as <<kind, text after the label>>
RECURSIVE Fields(_)
Fields(lines) ==
  IF lines = <<>> THEN <<>>
  ELSE LET l == Head(lines)
       IN  (IF l # <<>> /\ KindOf(l[1]) # "none"
              THEN << <<KindOf(l[1]), Tail(l)>> >> ELSE <<>>)
             \o Fields(Tail(lines))

SectionOrder ==
  <<"range", "largest", "smallest", "percentiles", "p99", "p98", "p95", "p90",
    "counts", "lt1", "lt2", "lt3">>

\* C10: once the block is appended, the display and the block carry the
\* same text for largest, smallest, the four percentiles and the three
\* percentages, in the same order: range, percentiles, patch counts.
C10_DisplayEqualsBlock ==
  pc \in Appended =>
    /\ Fields(display) = Fields(sanity_file)
    /\ Len(Fields(display)) = Len(SectionOrder)
    /\ \A i \in 1..Len(SectionOrder) : Fields(display)[i][1] = SectionOrder[i]

\* a sample whose largest and smallest values differ, rendered twice
C10_Witness ==
  /\ pc = "profcheck2"
  /\ delta_e_values = <<520, 310, 50>>
  /\ Fields(sanity_file)[2] = <<"largest", <<"5", ".", "2">> >>
  /\ Fields(display)[3] = <<"smallest", <<"0", ".", "5">> >>
  /\ Fields(display)[10] = <<"lt1", <<"3", "3", ".", "3", "%">> >>

\* ------------------------------------------------------------------- C11
\* stages of a call that come after the parse found values
AfterParse == {"positions", "percentiles", "display", "append",
               "profcheck2", "submenu"}

\* the first profcheck run of the current call has exited
Profcheck1Exited == runs > 0 /\ returncode # Unset

\* C11: the stages run in the order report written, parse, summarize,
\* render, and a failure cuts the rest short: when the first profcheck run
\* exits non-zero the report is not parsed and nothing is rendered; the
\* analysis block is in the file only after a profcheck run of the same
\* call exited 0 and a non-empty sample was parsed from its report, and
\* only after the same values were displayed.
C11_PipelineOrder ==
  /\ pc \in {"parse"} \cup AfterParse => returncode = 0
  /\ pc \in AfterParse =>
       /\ delta_e_values # <<>>
       /\ delta_e_values = ParseValues(report_out \o <<Blank, Blank>>)
  /\ pc \in HasSummary => total_patches = Len(delta_e_values)
  /\ pc \in Appended => HasStats(display)
  /\ (Profcheck1Exited /\ returncode # 0) =>
       /\ pc = "menu" /\ ret = "False"
       /\ sanity_file = report_out
       /\ delta_e_values = <<>>
       /\ ~HasStats(display)
       /\ BlockCount(sanity_file) = 0
  /\ (Profcheck1Exited /\ BlockCount(sanity_file) > 0) =>
       /\ returncode = 0
       /\ delta_e_values # <<>>
       /\ HasStats(display)
       /\ pc \in Appended \cup {"menu", "crashed"}

\* the second call of a session: its profcheck exited 0, its report was
\* parsed and its block is the one in the file
C11_Witness ==
  /\ pc = "profcheck2"
  /\ runs = 2
  /\ returncode = 0
  /\ BlockCount(sanity_file) = 1
  /\ SubSeq(sanity_file, 1, Len(report_out)) = report_out
  /\ delta_e_values = <<310, 50>>

\* ------------------------------------------------------------------- C12
\* the parse of the current call has run on a report profcheck wrote
Parsed == runs > 0 /\ returncode = 0 /\ pc # "parse"

RemoveAt(text, n) == SubSeq(text, 1, n - 1) \o SubSeq(text, n + 1, Len(text))

\* C12: a report line that does not match the per-patch pattern (no
\* leading bracketed decimal, an integer in the brackets, no "@" after
\* them) is ignored: the sample is the one parsed from the report without
\* that line, so the line adds no value and changes no other line's value;
\* and it causes no failure: a report with a matching line is never
\* answered with the no-values message.
C12_NonMatchingIgnored ==
  Parsed =>
    /\ \A n \in 1..Len(report_out) :
         ~IsPatchLine(report_out[n]) =>
           delta_e_values =
             ParseValues(RemoveAt(report_out, n) \o <<Blank, Blank>>)
    /\ (\E n \in 1..Len(report_out) : IsPatchLine(report_out[n])) =>
         /\ delta_e_values # <<>>
         /\ \A i \in 1..Len(display) : display[i] # NoValuesFound
         /\ ~(pc = "menu" /\ ret = "False" /\ ~HasStats(display))

\* a report with an integer in brackets before, and a line without "@"
\* after, its one patch line
C12_Witness ==
  /\ pc = "positions"
  /\ report_out = <<LineInteger, LinePatchB, LineNoAt>>
  /\ delta_e_values = <<310>>

\* ------------------------------------------------------------------- C13
\* a call, as recorded, that ended because no line matched
EndedEmpty(r) ==
  r.ret # "None" /\ r.display # <<>> /\ r.display[Len(r.display)] = NoValuesFound

\* a call, as recorded, that ended because profcheck exited non-zero
EndedToolFailed(r) ==
  /\ r.ret # "None"
  /\ \E i \in 1..Len(r.display) : r.display[i] = ProfcheckFailed[2]

\* the current call has returned and the call before it is on record
TwoCallsReturned ==
  prev.valid /\ prev.run < runs /\ pc = "menu" /\ ret # "None"

C14_EveryFailureIsReturned == pc # "crashed"

\* ------------------------------------------------------------------- C15
\* the summary of the current call is complete
Summarized == pc \in HasSummary \cup {"menu", "crashed"}

\* C15: parsing and summarizing are deterministic and idempotent: a call
\* whose profcheck wrote the same report text as the call before it parses
\* the same sample and computes the same summary (largest, smallest, range
\* and count, the four percentiles, the three counts and percentages),
\* whatever the earlier call left behind and whatever action, name and
\* folders the two calls were made with.
C15_SameReportSameSummary ==
  (prev.valid /\ prev.run < runs /\ prev.returncode = 0
     /\ Parsed /\ report_out = prev.out) =>
    /\ delta_e_values = prev.sample
    /\ Summarized => <<rangeVars, pctVars, cntVars>> = prev.summary

\* two calls made from different main-menu actions got the same non-empty
\* report, and the second has its summary
C15_Witness ==
  /\ prev.valid /\ prev.run < runs /\ prev.returncode = 0
  /\ Parsed /\ pc = "display"
  /\ report_out = prev.out /\ report_out = <<LinePatchA>>
  /\ prev.action # state.action
  /\ HasStats(prev.display)
  /\ largest = 520 /\ percentile_90 = 520

\* ------------------------------------------------------------------- C16
\* round(a / b) as Python 3 rounds: to the nearest integer, ties to even
Round(a, b) ==
  LET q == a \div b
      r == a % b
  IN  IF 2 * r > b \/ (2 * r = b /\ q % 2 = 1) THEN q + 1 ELSE q

\* the count that round(percentage * n / 100) gives back from a rendered
\* percentage field
CountBack(field, n) == Round(TenthsOf(field) * n, 1000)

ThresholdLabels ==
  {"  Percent of patches with dE<1.0: ", "  Percent of patches with dE<2.0: ",
   "  Percent of patches with dE<3.0: "}

CountOf(label) ==
  CASE label = "  Percent of patches with dE<1.0: " -> count_lt_1
    [] label = "  Percent of patches with dE<2.0: " -> count_lt_2
    [] label = "  Percent of patches with dE<3.0: " -> count_lt_3

\* C16 as stated: for every non-empty sample of length n and each
\* threshold, round(percentage * n / 100) of the rendered one-decimal
\* percentage is the count of elements below the threshold.
C16_RoundTripExact ==
  pc \in Rendered =>
    \A label \in ThresholdLabels :
      CountBack(FieldOf(display, label), Len(delta_e_values)) = CountOf(label)

\* C16: round(percentage * n / 100) of the rendered one-decimal percentage
\* is the count of elements below the threshold for every sample of at most
\* 1000 values; for a longer sample it is within (n + 1000) / 2000 of the
\* count, which is one patch for n = 1001.
C16_RoundTripWithinTolerance ==
  pc \in Rendered =>
    \A label \in ThresholdLabels :
      LET n == Len(delta_e_values)
          back == CountBack(FieldOf(display, label), n)
      IN  /\ n <= 1000 => back = CountOf(label)
          /\ 2000 * Abs(back - CountOf(label)) <= n + 1000

\* 501 of 1001 patches are below 1.0: rendered as 50.0%, which gives 500
\* back
C16_Witness ==
  /\ pc = "append"
  /\ Len(delta_e_values) = LargeCount
  /\ count_lt_1 = LargeCount \div 2 + 1
  /\ 2 * CountBack(FieldOf(display, "  Percent of patches with dE<1.0: "),
                   LargeCount) < LargeCount

\* ------------------------------------------------------------------- C17
BlockPercentileLabel(p) ==
  CASE p = 99 -> "99th percentile: " [] p = 98 -> "98th percentile: "
    [] p = 95 -> "95th percentile: " [] p = 90 -> "90th percentile: "

\* a rendered number: digits around one point
IsDecimalText(f) ==
  /\ f # <<>>
  /\ \A i \in 1..Len(f) : f[i] \in Digit \cup {"."}
  /\ Cardinality({i \in 1..Len(f) : f[i] = "."}) = 1

\* a field that shows the marker exactly for an unavailable percentile
MarkerIffUnavailable(f, pos, n) ==
  /\ Unavailable(pos, n) =>
       /\ f = <<"N/A">>
       /\ f \notin {<<>>, <<"0">>, <<"0", ".", "0">>}
  /\ f = <<"N/A">> => Unavailable(pos, n)
  /\ ~Unavailable(pos, n) => IsDecimalText(f)

\* C17: a percentile whose position is 0 or beyond sample_count is shown
\* as "N/A" in the display and in the block appended to the report, never
\* as 0, 0.0 or an empty field; and "N/A" is shown for such a percentile
\* only, every other one being shown as a number.
C17_MarkerForUnavailable ==
  /\ pc \in Rendered =>
       \A p \in Percentiles :
         MarkerIffUnavailable(FieldOf(display, PercentileLabel(p)),
                              PosOf(p), Len(delta_e_values))
  /\ pc \in Appended =>
       \A p \in Percentiles :
         MarkerIffUnavailable(FieldOf(sanity_file, BlockPercentileLabel(p)),
                              PosOf(p), Len(delta_e_values))

\* the block is appended with position 0 and a position past the sample
\* shown as the marker, next to a percentile that is a number
C17_Witness ==
  /\ pc = "profcheck2"
  /\ delta_e_values = <<520, 50>>
  /\ pos_99 = 0 /\ pos_98 = 3 /\ pos_95 = 2 /\ pos_90 = 2
  /\ FieldOf(sanity_file, "99th percentile: ") = <<"N/A">>
  /\ FieldOf(sanity_file, "98th percentile: ") = <<"N/A">>
  /\ FieldOf(sanity_file, "95th percentile: ") = <<"5", ".", "2">>
  /\ FieldOf(display, "  98th percentile: ") = <<"N/A">>

\* ------------------------------------------------------------------- C18
\* the lines this call displays from its locals
OwnDisplay ==
  DisplayLines(largest, smallest, percentile_99, percentile_98,
               percentile_95, percentile_90,
               percent_lt_1, percent_lt_2, percent_lt_3)

EndsWith(text, part) ==
  /\ Len(text) >= Len(part)
  /\ SubSeq(text, Len(text) - Len(part) + 1, Len(text)) = part

\* one step leaves what earlier stages handed on as it was
HandOffKept ==
  /\ pc \in AfterParse => delta_e_values' = delta_e_values
  /\ pc \in HasPositions => rangeVars' = rangeVars /\ posVars' = posVars
  /\ pc \in HasSummary => pctVars' = pctVars /\ cntVars' = cntVars
  /\ (pc = "display" /\ pc' = "append") => EndsWith(display', OwnDisplay)
  /\ (pc = "append" /\ pc' = "profcheck2") => EndsWith(sanity_file', OwnBlock)
  /\ (pc \in Appended /\ pc' \in Appended \cup {"menu", "crashed"}) =>
       /\ SubSeq(sanity_file', 1, Len(sanity_file)) = sanity_file
       /\ SubSeq(display', 1, Len(display)) = display

\* C18: no stage's output is changed after it was handed on: from the end
\* of parsing the sample keeps its length, elements and order through
\* summarizing and rendering; the range values and positions, and then the
\* percentiles and counts, stay as computed; the display and the appended
\* block are rendered from exactly these values and are only added to
\* afterwards.
C18_NoMutationAfterHandOff == [][HandOffKept]_vars

\* a sample that is not in descending order has been summarized and
\* rendered to both outputs as it was parsed
C18_Witness ==
  /\ pc = "profcheck2"
  /\ delta_e_values = <<50, 520, 310>>
  /\ largest = 50 /\ smallest = 310
  /\ EndsWith(sanity_file, OwnBlock)
  /\ FieldOf(sanity_file, "Largest dE: ") = <<"0", ".", "5">>
  /\ FieldOf(display, "  Smallest dE: ") = <<"3", ".", "1">>

\* ------------------------------------------------------------------- C19
\* C19: in actions 1 to 4 the steps run in the order create profile,
\* sanity check, copy to profile folder: install_profile_and_save_data is
\* reached only in these actions, after colprof exited 0 and sanity_check
\* was called and returned True in the same menu iteration, and
\* sanity_check is entered only after colprof exited 0; in action 5 colprof
\* is not run and install_profile_and_save_data is never reached.
C19_InstallAfterColprofAndSanity ==
  /\ mpc = "install" =>
       /\ state.action \in {"1", "2", "3", "4"}
       /\ colprof_rc = 0
       /\ sanity_called /\ pc = "menu" /\ ret = "True"
  /\ (mpc \in {"call_sanity", "in_sanity"}
        /\ state.action \in {"1", "2", "3", "4"}) => colprof_rc = 0
  /\ sanity_called => mpc \in {"in_sanity", "install", "abort", "top", "exited"}
  /\ state.action = "5" => mpc # "install" /\ colprof_rc = Unset

\* action 4: colprof exited 0, the sanity check was left with key 3, and
\* the profile is about to be installed
C19_Witness ==
  /\ mpc = "install"
  /\ state.action = "4"
  /\ colprof_rc = 0
  /\ sanity_called /\ ret = "True" /\ choice = "3"
  /\ BlockCount(sanity_file) = 1

\* ------------------------------------------------------------------- C20
\* C20 as stated: whenever the main-menu prompt is shown, each of the
\* eleven AppState fields listed as cleared on each main-menu iteration
\* (source_folder, dialog_title, name, desc, action, profile_folder,
\* new_name, ti3_mtime_before, ti3_mtime_after, tif_files, new_icc_path)
\* holds its empty value.
C20_StateClearedAtPrompt ==
  mpc = "prompt" => state = AppState

\* ------------------------------------------------------------------- C21
\* a value that stays on one line
SingleLine(value) == \A i \in 1..Len(value) : value[i] # "\n"

\* an update has been made
Updated == call.n > 0

\* C21 as stated: for every key that is a valid identifier and every
\* single-line value, after update_setup_value_shell_style(path, key,
\* value) the dictionary load_setup_file_shell_style(path) returns maps key
\* to exactly value, the key having been present or absent, and applying
\* the same update again leaves the file as it is.
C21_UpdateLoadRoundTrip ==
  (Updated /\ SingleLine(call.value)) =>
    /\ call.loaded => (call.key \in DOMAIN cfg /\ cfg[call.key] = call.value)
    /\ update_setup_value_shell_style(setup_file, call.key, call.value)
         = setup_file

\* ------------------------------------------------------------------- C22
PaperSizes == {<<"A", "4">>, <<"L", "e", "t", "t", "e", "r">>}

\* digits only, of a value in 0..400
IsIntegerUpTo400(v) ==
  /\ v # <<>>
  /\ \A i \in 1..Len(v) : v[i] \in Digit
  /\ IntVal(v) \in 0..400

\* digits, then possibly a point and digits
IsUnsignedDecimalText(v) ==
  \E d \in 1..Len(v) :
    /\ \A i \in 1..d : v[i] \in Digit
    /\ \/ d = Len(v)
       \/ /\ d + 2 <= Len(v) /\ v[d + 1] = "."
          /\ \A i \in (d + 2)..Len(v) : v[i] \in Digit

\* what the claim calls a valid value of the key of choice a
ValidFor(a, v) ==
  CASE a = "3" -> IsUnsignedDecimalText(v)
    [] a = "4" -> v \in PaperSizes
    [] a = "5" -> v = <<>> \/ IsIntegerUpTo400(v)

\* the three keys hold valid values in cfg, which main_menu reloads from
\* the setup file each time round its loop and edit_setup_parameters
\* loads when it is entered
ValidValues ==
  /\ ValidFor("4", Get(cfg, PAPER_SIZE))
  /\ ValidFor("5", Get(cfg, INK_LIMIT))
  /\ ValidFor("3", Get(cfg, STRIP_PATCH_CONSISTENSY_TOLERANCE))

\* one turn of edit_setup_parameters at choice 3, 4 or 5: a valid entry is
\* the value the key now has, an invalid one changes neither the file nor
\* cfg
ValidOrUnchanged ==
  (mpc = "edit_setup" /\ entry'.answer \in {"3", "4", "5"}) =>
    LET a == entry'.answer
        v == strip(entry'.typed)
    IN  IF ValidFor(a, v)
          THEN Get(cfg', SetupKey(a)) = v
          ELSE UNCHANGED <<setup_file, cfg>>

\* C22: after any sequence of choices in edit_setup_parameters, a
\* PAPER_SIZE written by the menu is A4 or Letter, an INK_LIMIT written by
\* it is empty or an integer in 0..400, a
\* STRIP_PATCH_CONSISTENSY_TOLERANCE written by it is an unsigned decimal
\* number, and an invalid entry leaves the setup file and cfg unchanged.
C22_OnlyValidValuesPersisted == []ValidValues /\ [][ValidOrUnchanged]_vars

\* 401 was entered as ink limit after 400 and Letter had been written: the
\* file and cfg still hold 400 and Letter
C22_Witness ==
  /\ mpc = "edit_setup"
  /\ entry = [answer |-> "5", typed |-> <<"4", "0", "1">>]
  /\ Get(cfg, INK_LIMIT) = <<"4", "0", "0">>
  /\ Get(load_setup_file_shell_style(setup_file), INK_LIMIT) = <<"4", "0", "0">>
  /\ Get(load_setup_file_shell_style(setup_file), PAPER_SIZE)
       = <<"L", "e", "t", "t", "e", "r">>

\* ------------------------------------------------------------------- C29
\* the line is an assignment to key, as update_setup_value_shell_style
\* and load_setup_file_shell_style both take it
AssignsTo(line, key) == startswith(strip(line), Append(key, "="))

\* the lines of text that are no assignment to key, in their order
OtherLines(text, key) ==
  LET lines == splitlines(text)
      RECURSIVE From(_)
      From(i) ==
        IF i > Len(lines) THEN <<>>
        ELSE IF AssignsTo(lines[i], key) THEN From(i + 1)
        ELSE <<lines[i]>> \o From(i + 1)
  IN  From(1)

\* x can be had from y by leaving lines out
RECURSIVE IsSubseqFrom(_, _, _, _)
IsSubseqFrom(x, i, y, j) ==
  IF i > Len(x) THEN TRUE
  ELSE IF j > Len(y) THEN FALSE
  ELSE IF x[i] = y[j] THEN IsSubseqFrom(x, i + 1, y, j + 1)
  ELSE IsSubseqFrom(x, i, y, j + 1)

\* the update of call.key kept every other line of the file and, where
\* cfg still is what was loaded before it, every other key's value
OnlyTheKeyChanged ==
  /\ IsSubseqFrom(OtherLines(call.before, call.key), 1,
                  splitlines(setup_file), 1)
  /\ ~call.loaded =>
       LET after == load_setup_file_shell_style(setup_file)
       IN  \A k \in (DOMAIN cfg \cup DOMAIN after) \ {call.key} :
             k \in DOMAIN cfg /\ k \in DOMAIN after /\ after[k] = cfg[k]

\* C29 as stated: update_setup_value_shell_style(path, key, value) changes
\* nothing but the given key, for every value: each line that is no
\* assignment to key is kept verbatim and in the same order, and for every
\* other key the value load_setup_file_shell_style returns is the same
\* before and after.
C29_OnlyTheKeyChanges ==
  Updated => OnlyTheKeyChanged

\* C29 as it holds: for every single-line value,
\* update_setup_value_shell_style(path, key, value) changes nothing but the
\* given key: each line that is no assignment to key is kept verbatim and
\* in the same order, no other line is added, and for every other key the
\* value load_setup_file_shell_style returns is the same before and after.
C29_OnlyTheKeyChangesSingleLine ==
  (Updated /\ SingleLine(call.value)) =>
    /\ OnlyTheKeyChanged
    /\ OtherLines(setup_file, call.key) = OtherLines(call.before, call.key)

\* INK_LIMIT was updated in the file of mixed quoting, which assigns
\* PAPER_SIZE twice, has a blank line and no final line break: the three
\* other lines are kept and PAPER_SIZE still loads as Letter
C29_Witness ==
  /\ Updated /\ ~call.loaded
  /\ call.before = SetupMixed
  /\ call.key = INK_LIMIT
  /\ call.value = <<"a", " ", "#", "b">>
  /\ Len(OtherLines(setup_file, INK_LIMIT)) = 3
  /\ Get(load_setup_file_shell_style(setup_file), PAPER_SIZE)
       = <<"L", "e", "t", "t", "e", "r">>

\* ------------------------------------------------------------------- C23
\* colprof is about to be run, or has been run, by
\* perform_measurement_and_profile_creation in this menu iteration
ColprofAfterChartread ==
  /\ chartread.on
  /\ state.action \in {"1", "2", "3"}
  /\ mpc = "colprof" \/ colprof_rc # Unset

\* chartread exited 0 and left a .ti3 whose modification time, taken
\* before in resume mode, is what it was
NothingNewMeasured ==
  /\ chartread.on
  /\ state.action = "2"
  /\ chartread.returncode = 0
  /\ chartread.ti3_exists
  /\ chartread.ti3_mtime_before # Unset
  /\ chartread.ti3_mtime_after = chartread.ti3_mtime_before

\* C23: perform_measurement_and_profile_creation invokes colprof only if
\* chartread exited 0, the .ti3 exists afterwards, the operator answered y
\* (in either case) to the continue prompt and, in action 2 with a .ti3
\* that existed before chartread, its modification time changed; an
\* unchanged modification time ends the function with False: the operator
\* is not asked and colprof is not run.
C23_ColprofOnlyAfterGoodChartread ==
  /\ ColprofAfterChartread =>
       /\ chartread.again = "y"
       /\ chartread.returncode = 0
       /\ chartread.ti3_exists
       /\ chartread.cont \in {"y", "Y"}
       /\ (state.action = "2" /\ chartread.ti3_mtime_before # Unset) =>
            chartread.ti3_mtime_after # chartread.ti3_mtime_before
  /\ NothingNewMeasured =>
       /\ mpc \in {"abort", "top"}
       /\ chartread.cont = ""
       /\ colprof_rc = Unset /\ ~sanity_called

\* action 2: the .ti3 was there before, chartread exited 0 and changed its
\* modification time, the operator answered Y and colprof exited 0
C23_Witness ==
  /\ ColprofAfterChartread
  /\ state.action = "2"
  /\ chartread.ti3_mtime_before = 1 /\ chartread.ti3_mtime_after = 2
  /\ chartread.cont = "Y"
  /\ colprof_rc = 0

\* ------------------------------------------------------------------- C24
\* the suffixes the claim allows for an action
SuffixesFor(action) ==
  CASE action = "3" -> {<<".", "t", "i", "2">>}
    [] action \in {"2", "4", "5"} -> {<<".", "t", "i", "3">>}
    [] action = "6" -> {<<".", "i", "c", "c">>, <<".", "i", "c", "m">>}
    [] OTHER -> {}

\* the companion files the claim requires for an action are there
CompanionsFor(action) ==
  CASE action = "2" -> selected.ti2 /\ selected.tifs # <<>>
    [] action = "3" -> selected.tifs # <<>>
    [] action = "5" -> selected.icc
    [] OTHER -> TRUE

\* a call of select_file has returned and is on record
SelectFileReturned == selected.on /\ selected.ret # "None"

\* C24: select_file returns True only if the chosen file has the suffix
\* allowed for the current action (compared in lower case) and the
\* action's companion files exist next to it; for an action other than 2
\* to 6 it returns False without opening a dialog.
C24_TrueOnlyForAllowedFile ==
  SelectFileReturned =>
    /\ selected.ret = "True" =>
         /\ selected.path # <<>>
         /\ lower(suffix(selected.path)) \in SuffixesFor(selected.action)
         /\ CompanionsFor(selected.action)
    /\ selected.action \notin {"2", "3", "4", "5", "6"} =>
         selected.ret = "False" /\ ~selected.dialog

\* action 2 with P.TI3 picked, its .ti2 and a target image next to it:
\* select_file returned True
C24_Witness ==
  /\ SelectFileReturned
  /\ selected.action = "2"
  /\ selected.ret = "True"
  /\ suffix(selected.path) = <<".", "T", "I", "3">>
  /\ selected.ti2 /\ selected.tifs # <<>> /\ ~selected.icc

\* ------------------------------------------------------------------- C25
\* a step of the current action has returned False
StepFailed == mpc = "abort"

\* after a failed step nothing happens but the return to the loop top
OnlyBackToMenu ==
  StepFailed =>
    /\ mpc' = "top"
    /\ UNCHANGED <<pc, runs, sanity_file, display, ret, choice, returncode,
                   report_out, state, colprof_rc, sanity_called, setupVars>>

\* what has failed in this iteration was the last step taken in it
NothingAfterFailure ==
  /\ StepFailed => state.action \in {"1", "2", "3", "4", "5"}
  /\ colprof_rc \notin {Unset, 0} =>
       ~sanity_called /\ mpc \in {"abort", "top"}
  /\ (sanity_called /\ pc = "menu" /\ ret = "False") =>
       mpc \in {"in_sanity", "abort", "top"}
  /\ mpc \in {"colprof", "call_sanity", "install"} => colprof_rc \in {Unset, 0}

\* C25: in every main-menu action 1 to 5, once a step has returned False
\* no later step of the action runs: 'Operation aborted.' is shown and
\* control returns to the main-menu prompt, no external tool of a later
\* step (chartread, colprof, profcheck) is run and no profile is installed.
C25_NoStepAfterFailure == []NothingAfterFailure /\ [][OnlyBackToMenu]_vars

\* action 4: colprof exited 1, so sanity_check was not called and the
\* action is being aborted
C25_Witness ==
  /\ StepFailed
  /\ state.action = "4"
  /\ colprof_rc = 1
  /\ ~sanity_called /\ runs = 0

\* ------------------------------------------------------------------- C26
\* the current call of sanity_check has returned v
SanityCheckReturned(v) == runs > 0 /\ pc = "menu" /\ ret = v

\* the second profcheck run was started (line 1784), and exited 0 (line
\* 1799)
SecondRunStarted ==
  \E i \in 1..Len(display) : display[i] = <<"Command Used: profcheck -v -k">>

SecondRunExitedZero ==
  \E i \in 1..Len(display) : display[i] = <<"Sanity Check Complete">>

\* True is returned only after both profcheck runs exited 0 and a value
\* was parsed
TrueOnlyAfterBothRuns ==
  SanityCheckReturned("True") =>
    /\ returncode = 0
    /\ delta_e_values # <<>>
    /\ SecondRunStarted /\ SecondRunExitedZero

\* C26 as stated: sanity_check returns True only if both profcheck runs
\* exited 0 and at least one Delta-E value was parsed, and whenever it
\* returns False the report file contains no analysis block written by
\* that invocation.
C26_FalseLeavesNoBlock ==
  /\ TrueOnlyAfterBothRuns
  /\ SanityCheckReturned("False") => BlockCount(sanity_file) = 0

\* C26 as it holds: sanity_check returns True only if both profcheck runs
\* exited 0 and at least one Delta-E value was parsed; when it returns
\* False because the first run exited non-zero or no value was parsed, the
\* report file contains no analysis block; when it returns False because
\* the second run exited non-zero, the report file contains the analysis
\* block that invocation appended before the run.
C26_FalseLeavesNoBlockUnlessSecondRunFailed ==
  /\ TrueOnlyAfterBothRuns
  /\ SanityCheckReturned("False") =>
       IF SecondRunStarted
         THEN /\ returncode = 0 /\ delta_e_values # <<>>
              /\ ~SecondRunExitedZero
              /\ BlockCount(sanity_file) = 1
              /\ \E i \in BlockStarts(sanity_file) :
                   SubSeq(sanity_file, i - 1, i + Len(OwnBlock) - 2) = OwnBlock
         ELSE BlockCount(sanity_file) = 0

\* the second profcheck run exited non-zero: False is returned and the
\* block is in the file
C26_Witness ==
  /\ SanityCheckReturned("False")
  /\ SecondRunStarted
  /\ BlockCount(sanity_file) = 1
  /\ Len(delta_e_values) = MaxLines

\* ------------------------------------------------------------------- C27
\* C27: for every non-empty sample and every p in {90, 95, 98, 99} the
\* computed position satisfies 1 <= position <= sample_count, so the index
\* sample_count - position is within 0..sample_count-1 and get_percentile
\* never returns the N/A sentinel in a run of sanity_check.
C27_PositionAlwaysInRange ==
  /\ pc \in HasPositions =>
       /\ total_patches = Len(delta_e_values) /\ total_patches >= 1
       /\ \A p \in Percentiles :
            /\ 1 <= PosOf(p) /\ PosOf(p) <= total_patches
            /\ percentile_index(delta_e_values, PosOf(p))
                 \in 0..(total_patches - 1)
  /\ pc \in HasSummary =>
       \A p \in Percentiles :
         /\ PercentileOf(p) # NA
         /\ PercentileOf(p)
              = delta_e_values[percentile_index(delta_e_values, PosOf(p)) + 1]

\* a sample of one value: every position is 1 and every percentile is that
\* value
C27_Witness ==
  /\ pc = "display"
  /\ Len(delta_e_values) = 1
  /\ \A p \in Percentiles : PosOf(p) = 1 /\ PercentileOf(p) = delta_e_values[1]

\* ------------------------------------------------------------------- C28
\* C28: for every non-empty sample sorted descending, each of the four
\* reported percentiles lies between the reported smallest and largest
\* values, and the three threshold counts satisfy
\* 0 <= count(<1.0) <= count(<2.0) <= count(<3.0) <= sample_count.
C28_PercentilesAndCountsBounded ==
  (pc \in HasSummary /\ IsDescending(delta_e_values)) =>
    /\ delta_e_values # <<>>
    /\ \A p \in Percentiles :
         smallest <= PercentileOf(p) /\ PercentileOf(p) <= largest
    /\ 0 <= count_lt_1 /\ count_lt_1 <= count_lt_2
    /\ count_lt_2 <= count_lt_3 /\ count_lt_3 <= total_patches

\* ten values, descending, of which some but not all are below 1.0: the
\* 90th percentile is below the largest value
C28_Witness ==
  /\ pc = "display"
  /\ Len(delta_e_values) = 10
  /\ IsDescending(delta_e_values)
  /\ smallest < largest
  /\ percentile_90 < largest /\ percentile_99 = largest
  /\ 0 < count_lt_1 /\ count_lt_3 < total_patches

====
